---------------------------- MODULE Spec2Model ----------------------------
(***************************************************************************)
(* Audit orchestration and scoring of context_cli: the single-page audit   *)
(* (audit_url), the site audit (audit_site / _audit_site_inner), the site  *)
(* aggregation (aggregate_page_scores), the scoring (compute_scores)       *)
(* and the batch runner (run_batch_audit).                                 *)
(*                                                                         *)
(* All scores are carried in TENTHS of a point (12.5 points is 125), since *)
(* every score of the program is an integer or a float rounded to one      *)
(* decimal.                                                                *)
(***************************************************************************)
EXTENDS Integers, Sequences, FiniteSets, TLC

VARIABLES
    mode,       \* which entry point runs: "url", "site", "batch" or "call"
    pc,         \* position of the audit coroutine
    res,        \* result slot of each probe of the fan-out (the gather tuple)
    errors,     \* the audit's non-fatal errors list
    report,     \* the report returned (NoReport until the audit returns)
    outcome,    \* "none", "returned" or "raised": how the audit call ended
    expired,    \* audit_site: the overall deadline fired
    max_pages,  \* audit_site's max_pages argument
    site,       \* locals of _audit_site_inner kept across its awaits
    concurrency, \* batch runner: the concurrency argument
    sem,        \* batch runner: free permits of the semaphore
    task,       \* batch runner: state of each URL's audit task
    fails,      \* batch runner: the URLs whose audit raises
    reports,    \* batch runner: reports collected, as <<url, report>>
    batchErrors, \* batch runner: errors collected, as <<url, message>>
    call,       \* a direct call of one function: its name and its arguments
    ret         \* what that call returned (None until it has returned)

vars == <<mode, pc, res, errors, report, outcome, expired, max_pages, site,
          concurrency, sem, task, fails, reports, batchErrors, call, ret>>

auditVars == <<pc, res, errors, report, outcome, expired, max_pages, site>>
batchVars == <<concurrency, sem, task, fails, reports, batchErrors>>
callVars == <<call, ret>>

-----------------------------------------------------------------------------
(* Bounds of the model *)

MaxBots == 2        \* number of bots evaluated by the robots probe
MaxSiteFaults == 2  \* site audit: probes of the fan-out that raise, at most
MaxPagesBound == 3  \* largest max_pages argument of audit_site
NumUrls == 5        \* batch runner: number of input URLs
MaxChecked == 3     \* direct calls: bots evaluated in a RobotsReport, at most
MaxPageList == 3    \* direct calls: pages handed to aggregate_page_scores, at most
MaxUrlChars == 8    \* direct calls: characters of a URL after its host, at most
MaxChars == 12      \* direct calls: characters of a page's html and markdown, at most
MaxBlocks == 4      \* direct calls: JSON-LD blocks of a SchemaReport, at most
MaxConcurrency == 2 \* batch runner: largest concurrency argument

-----------------------------------------------------------------------------
(* Scoring constants: scoring.py *)

CONTENT_HEADING_BONUS == 7
CONTENT_LIST_BONUS == 5
CONTENT_CODE_BONUS == 3
CONTENT_MAX == 40
SCHEMA_BASE_SCORE == 8
SCHEMA_HIGH_VALUE_BONUS == 5
SCHEMA_STANDARD_BONUS == 3
SCHEMA_MAX == 25
ROBOTS_MAX == 25
LLMS_TXT_MAX == 10
V3_CONTENT_MAX == 35
V3_ROBOTS_MAX == 20
V3_SCHEMA_MAX == 20
V3_AGENT_READINESS_MAX == 20
V3_LLMS_TXT_MAX == 5
SITE_AUDIT_TIMEOUT == 90

\* defaults of the lint command's options: cli/audit.py
timeout_default == 15
max_pages_default == 10
regression_threshold_default == 5

CONTENT_WORD_TIERS == << <<1500, 25>>, <<800, 20>>, <<400, 15>>, <<150, 8>> >>
HIGH_VALUE_TYPES == {"FAQPage", "HowTo", "Article", "Product", "Recipe"}

-----------------------------------------------------------------------------
(* Python's round(num / den, 1) for integers num >= 0, den > 0, in tenths.  *)
(* num / den is the double nearest to the quotient, and round() rounds the  *)
(* exact value of that double: a quotient that is exactly k.x5 goes up or   *)
(* down as the double lies above or below it, and half-to-even when the     *)
(* double is exact (the quotient is an odd multiple of 1/4).                *)

Pow2Mod5(k) == CASE k % 4 = 0 -> 1 [] k % 4 = 1 -> 2 [] k % 4 = 2 -> 4 [] OTHER -> 3

RECURSIVE ExpDown(_, _, _)
ExpDown(n, d, e) == IF 2 * d <= n THEN ExpDown(n, 2 * d, e + 1) ELSE e

RECURSIVE ExpUp(_, _)
ExpUp(m, j) == IF m < 5 THEN ExpUp(2 * m, j + 1) ELSE j

\* (52 - floor(log2(n / 5))) mod 4: the scaling that makes n / 5 a 53-bit mantissa
MantissaShiftMod4(n) ==
    IF n >= 5 THEN (4 - (ExpDown(n, 5, 0) % 4)) % 4 ELSE ExpUp(n, 0) % 4

\* TRUE when the double nearest to n / 20 (n odd, no multiple of 5) lies above it
DoubleAbove(n) == (n * Pow2Mod5(MantissaShiftMod4(n))) % 5 >= 3

Round1(num, den) ==
    LET fl == (10 * num) \div den
        rem == (10 * num) % den
        n == 2 * fl + 1
    IN  IF 2 * rem < den THEN fl
        ELSE IF 2 * rem > den THEN fl + 1
        ELSE IF n % 5 = 0 THEN (IF fl % 2 = 0 THEN fl ELSE fl + 1)
        ELSE IF DoubleAbove(n) THEN fl + 1 ELSE fl

Min(a, b) == IF a <= b THEN a ELSE b

Range(s) == {s[i] : i \in 1..Len(s)}

RECURSIVE SumSeq(_)
SumSeq(s) == IF s = <<>> THEN 0 ELSE Head(s) + SumSeq(Tail(s))

-----------------------------------------------------------------------------
(* Fetched documents.  An HTML text is carried as what the page checks read *)
(* from it (its JSON-LD block types in order, its length, its semantic-HTML *)
(* score), a markdown text likewise; the empty string is EmptyHtml/EmptyMd. *)

EmptyHtml == [schemas |-> <<>>, chars |-> 0, semantic |-> 0]
EmptyMd == [words |-> 0, chars |-> 0, headings |-> FALSE, lists |-> FALSE,
            code |-> FALSE]

(* Report constructors with the defaults of models.py *)

RobotsReport(found, detail) ==
    [found |-> found, checked |-> 0, allowed |-> 0, score |-> 0, detail |-> detail]

LlmsTxtReport(found, detail) ==
    [found |-> found, llms_full_found |-> FALSE, score |-> 0, detail |-> detail]

SchemaReport(detail) ==
    [blocks_found |-> 0, schemas |-> <<>>, score |-> 0, detail |-> detail]

ContentReport(detail) ==
    [word_count |-> 0, char_count |-> 0, has_headings |-> FALSE,
     has_lists |-> FALSE, has_code_blocks |-> FALSE, score |-> 0,
     detail |-> detail, raw_html_chars |-> 0, clean_markdown_chars |-> 0,
     estimated_raw_tokens |-> 0, estimated_clean_tokens |-> 0,
     context_waste_pct |-> 0]

\* AgentsMdReport(), MarkdownAcceptReport(), McpEndpointReport(), X402Report(),
\* NlwebReport(), SemanticHtmlReport(): found/supported False, score 0
DefaultSubReport == [found |-> FALSE, score |-> 0]

NoReport == [kind |-> "none"]
None == [kind |-> "None"]

-----------------------------------------------------------------------------
(* Page checks *)

check_schema_org(html) ==
    IF html.chars = 0 THEN SchemaReport("No HTML to analyze")
    ELSE [blocks_found |-> Len(html.schemas), schemas |-> html.schemas,
          score |-> 0,
          detail |-> IF Len(html.schemas) > 0 THEN "JSON-LD block(s) found"
                     ELSE "No JSON-LD found"]

check_content(markdown) ==
    IF markdown.chars = 0 THEN ContentReport("No content extracted")
    ELSE [ContentReport("words") EXCEPT
            !.word_count = markdown.words,
            !.char_count = markdown.chars,
            !.has_headings = markdown.headings,
            !.has_lists = markdown.lists,
            !.has_code_blocks = markdown.code]

check_semantic_html(html) == [found |-> html.semantic > 0, score |-> html.semantic]

audit_page_content(html, markdown) ==
    [schema |-> check_schema_org(html), content |-> check_content(markdown)]

-----------------------------------------------------------------------------
(* compute_scores: scoring.py.  Scores in tenths. *)

\* faulty variant: with no bot evaluated every evaluated bot counts as allowed
RobotsScore_empty_is_full(robots) ==
    IF robots.found
    THEN IF robots.checked = 0 THEN 10 * ROBOTS_MAX
         ELSE Round1(ROBOTS_MAX * robots.allowed, robots.checked)
    ELSE 0

RobotsScore(robots) ==
    IF robots.found /\ robots.checked > 0
    THEN Round1(ROBOTS_MAX * robots.allowed, robots.checked)
    ELSE 0

LlmsTxtScore(llms_txt) ==
    IF llms_txt.found \/ llms_txt.llms_full_found THEN 10 * LLMS_TXT_MAX ELSE 0

\* faulty variant: the min() with SCHEMA_MAX is missing
SchemaScore_uncapped(schema_org) ==
    IF schema_org.blocks_found > 0
    THEN LET unique_types == Range(schema_org.schemas)
             high == Cardinality(unique_types \cap HIGH_VALUE_TYPES)
             std == Cardinality(unique_types) - high
         IN  10 * (SCHEMA_BASE_SCORE + SCHEMA_HIGH_VALUE_BONUS * high
                     + SCHEMA_STANDARD_BONUS * std)
    ELSE 0

\* faulty variant: every block earns its bonus, blocks of one type included
SchemaScore_counting_blocks(schema_org) ==
    IF schema_org.blocks_found > 0
    THEN LET blocks == 1..Len(schema_org.schemas)
             high == Cardinality({i \in blocks : schema_org.schemas[i] \in HIGH_VALUE_TYPES})
             std == Len(schema_org.schemas) - high
         IN  10 * Min(SCHEMA_MAX,
                      SCHEMA_BASE_SCORE + SCHEMA_HIGH_VALUE_BONUS * high
                        + SCHEMA_STANDARD_BONUS * std)
    ELSE 0

SchemaScore(schema_org) ==
    IF schema_org.blocks_found > 0
    THEN LET unique_types == Range(schema_org.schemas)
             high == Cardinality(unique_types \cap HIGH_VALUE_TYPES)
             std == Cardinality(unique_types) - high
         IN  10 * Min(SCHEMA_MAX,
                      SCHEMA_BASE_SCORE + SCHEMA_HIGH_VALUE_BONUS * high
                        + SCHEMA_STANDARD_BONUS * std)
    ELSE 0

\* faulty variant: a tier is entered only above its threshold
RECURSIVE TierScore_exclusive(_, _)
TierScore_exclusive(word_count, i) ==
    IF i > Len(CONTENT_WORD_TIERS) THEN 0
    ELSE IF word_count > CONTENT_WORD_TIERS[i][1] THEN CONTENT_WORD_TIERS[i][2]
    ELSE TierScore_exclusive(word_count, i + 1)

RECURSIVE TierScore(_, _)
TierScore(word_count, i) ==
    IF i > Len(CONTENT_WORD_TIERS) THEN 0
    ELSE IF word_count >= CONTENT_WORD_TIERS[i][1] THEN CONTENT_WORD_TIERS[i][2]
    ELSE TierScore(word_count, i + 1)

\* faulty variant: the score is added to the one the report already has
ContentScore_from_previous(content) ==
    10 * Min(CONTENT_MAX,
             (content.score \div 10) + TierScore(content.word_count, 1)
               + (IF content.has_headings THEN CONTENT_HEADING_BONUS ELSE 0)
               + (IF content.has_lists THEN CONTENT_LIST_BONUS ELSE 0)
               + (IF content.has_code_blocks THEN CONTENT_CODE_BONUS ELSE 0))

ContentScore(content) ==
    10 * Min(CONTENT_MAX,
             TierScore(content.word_count, 1)
               + (IF content.has_headings THEN CONTENT_HEADING_BONUS ELSE 0)
               + (IF content.has_lists THEN CONTENT_LIST_BONUS ELSE 0)
               + (IF content.has_code_blocks THEN CONTENT_CODE_BONUS ELSE 0))

\* faulty variant: the overall score leaves out the llms.txt pillar
compute_scores_without_llms(robots, llms_txt, schema_org, content) ==
    LET r == [robots EXCEPT !.score = RobotsScore(robots)]
        l == [llms_txt EXCEPT !.score = LlmsTxtScore(llms_txt)]
        s == [schema_org EXCEPT !.score = SchemaScore(schema_org)]
        c == [content EXCEPT !.score = ContentScore(content)]
    IN  [robots |-> r, llms_txt |-> l, schema_org |-> s, content |-> c,
         overall |-> r.score + s.score + c.score]

compute_scores(robots, llms_txt, schema_org, content) ==
    LET r == [robots EXCEPT !.score = RobotsScore(robots)]
        l == [llms_txt EXCEPT !.score = LlmsTxtScore(llms_txt)]
        s == [schema_org EXCEPT !.score = SchemaScore(schema_org)]
        c == [content EXCEPT !.score = ContentScore(content)]
    IN  [robots |-> r, llms_txt |-> l, schema_org |-> s, content |-> c,
         overall |-> r.score + l.score + s.score + c.score]

-----------------------------------------------------------------------------
(* The versioned scoring: compute_scores(..., scoring_version, agent_readiness) *)
(* and compute_agent_readiness.  Under v3 the v2 raw scores are rescaled into   *)
(* the v3 budget and the Agent-Readiness score is added unscaled.               *)

\* round(raw / v2_max * v3_max, 1), in tenths: the nearest tenth, and on an exact
\* half (a content score of 2, 6, 10, ... points) the even one, as round() gives
Scale(raw, v2_max, v3_max) ==
    LET num == raw * v3_max
        fl == num \div v2_max
        rem == num % v2_max
    IN  IF 2 * rem < v2_max THEN fl
        ELSE IF 2 * rem > v2_max THEN fl + 1
        ELSE IF fl % 2 = 0 THEN fl ELSE fl + 1

SubScoreSum(ar) ==
    ar.agents_md.score + ar.markdown_accept.score + ar.mcp_endpoint.score
      + ar.semantic_html.score + ar.x402.score + ar.nlweb.score

compute_agent_readiness(ar) ==
    [ar EXCEPT !.score = Min(10 * V3_AGENT_READINESS_MAX, SubScoreSum(ar))]

\* faulty variant: under v3 the rescaled scores are written back to the reports
compute_scores_versioned_scaled_in_place(robots, llms_txt, schema_org, content, scoring_version, agent_readiness) ==
    LET v2 == compute_scores(robots, llms_txt, schema_org, content)
        r == Scale(v2.robots.score, ROBOTS_MAX, V3_ROBOTS_MAX)
        l == Scale(v2.llms_txt.score, LLMS_TXT_MAX, V3_LLMS_TXT_MAX)
        s == Scale(v2.schema_org.score, SCHEMA_MAX, V3_SCHEMA_MAX)
        c == Scale(v2.content.score, CONTENT_MAX, V3_CONTENT_MAX)
        ar_score == IF agent_readiness = None THEN 0 ELSE agent_readiness.score
    IN  IF scoring_version = "v3"
        THEN [robots |-> [v2.robots EXCEPT !.score = r],
              llms_txt |-> [v2.llms_txt EXCEPT !.score = l],
              schema_org |-> [v2.schema_org EXCEPT !.score = s],
              content |-> [v2.content EXCEPT !.score = c],
              overall |-> r + l + s + c + ar_score]
        ELSE v2

compute_scores_versioned(robots, llms_txt, schema_org, content, scoring_version, agent_readiness) ==
    LET v2 == compute_scores(robots, llms_txt, schema_org, content)
        ar_score == IF agent_readiness = None THEN 0 ELSE agent_readiness.score
    IN  IF scoring_version = "v3"
        THEN [v2 EXCEPT !.overall =
                Scale(v2.robots.score, ROBOTS_MAX, V3_ROBOTS_MAX)
                  + Scale(v2.llms_txt.score, LLMS_TXT_MAX, V3_LLMS_TXT_MAX)
                  + Scale(v2.schema_org.score, SCHEMA_MAX, V3_SCHEMA_MAX)
                  + Scale(v2.content.score, CONTENT_MAX, V3_CONTENT_MAX)
                  + ar_score]
        ELSE v2

-----------------------------------------------------------------------------
(* compute_lint_results: scoring.py.  A LintCheck is carried as its name and  *)
(* its verdict; the detail strings, which no verdict depends on, are left out *)

LintCheck(name, passed) == [name |-> name, passed |-> passed]

AllPassed(checks) == \A i \in 1..Len(checks) : checks[i].passed

LintResult(checks, content) ==
    [checks |-> checks,
     context_waste_pct |-> content.context_waste_pct,
     raw_tokens |-> content.estimated_raw_tokens,
     clean_tokens |-> content.estimated_clean_tokens,
     passed |-> AllPassed(checks)]

\* the four checks of every scheme; robots.bots is non-empty when checked > 0
\* and the blocked bots are the checked - allowed ones
LintChecks(robots, llms_txt, schema_org, content) ==
    LET ai_prim_pass == llms_txt.found \/ llms_txt.llms_full_found
        bot_pass == IF robots.found /\ robots.checked > 0
                    THEN robots.checked - robots.allowed = 0
                    ELSE TRUE
        schema_pass == schema_org.blocks_found > 0
        eff_pass == content.context_waste_pct < 10 * 70
    IN  << LintCheck("AI Primitives", ai_prim_pass),
           LintCheck("Bot Access", bot_pass),
           LintCheck("Data Structuring", schema_pass),
           LintCheck("Token Efficiency", eff_pass) >>

compute_lint_results(robots, llms_txt, schema_org, content) ==
    LintResult(LintChecks(robots, llms_txt, schema_org, content), content)

\* faulty variant: the verdict is taken before the Agent Readiness check is appended
compute_lint_results_versioned_verdict_of_four(robots, llms_txt, schema_org, content, scoring_version, agent_readiness) ==
    LET v2 == compute_lint_results(robots, llms_txt, schema_org, content)
    IN  IF scoring_version = "v3" /\ agent_readiness # None
        THEN [v2 EXCEPT !.checks = Append(v2.checks,
                  LintCheck("Agent Readiness", agent_readiness.score > 0))]
        ELSE v2

\* compute_lint_results(..., scoring_version, agent_readiness): under v3 a
\* supplied AgentReadinessReport adds a fifth check, passed when its score is > 0
compute_lint_results_versioned(robots, llms_txt, schema_org, content, scoring_version, agent_readiness) ==
    LET four == LintChecks(robots, llms_txt, schema_org, content)
    IN  IF scoring_version = "v3" /\ agent_readiness # None
        THEN LintResult(Append(four, LintCheck("Agent Readiness",
                                               agent_readiness.score > 0)),
                        content)
        ELSE LintResult(four, content)

-----------------------------------------------------------------------------
(* The probes of the fan-out, in the order of the gather tuple *)

ProbeOrder == <<"robots", "llms_txt", "content_usage", "crawl", "agents_md",
                "markdown_accept", "mcp_endpoint", "x402", "nlweb">>
Probes == Range(ProbeOrder)
AgentProbes == {"agents_md", "markdown_accept", "mcp_endpoint", "x402", "nlweb"}
\* the probes that are handed the shared httpx client (and so its timeout)
ClientProbes == Probes \ {"crawl"}

Pending == [st |-> "pending"]
Raised == [st |-> "raised"]
Ok(v) == [st |-> "ok", v |-> v]

IsException(r) == r.st = "raised"

(* Values the probes may return *)

Seed == [host |-> "example.com", path |-> <<>>]
UrlA == [host |-> "example.com", path |-> <<"a">>]
UrlAB == [host |-> "example.com", path |-> <<"a", "b">>]
UrlABC == [host |-> "example.com", path |-> <<"a", "b", "c">>]
OtherUrls == {UrlA, UrlAB, UrlABC}

DocA == [html |-> [schemas |-> <<"Article", "Organization", "Article">>,
                   chars |-> 4000, semantic |-> 30],
         markdown |-> [words |-> 800, chars |-> 2000, headings |-> TRUE,
                       lists |-> FALSE, code |-> FALSE]]
DocB == [html |-> [schemas |-> <<>>, chars |-> 900, semantic |-> 0],
         markdown |-> [words |-> 150, chars |-> 700, headings |-> FALSE,
                       lists |-> FALSE, code |-> FALSE]]

\* CrawlResult(url, html, markdown, success, error, internal_links); error is
\* "none" (None) or "msg" (a message)
CrawlResult(url, doc, success, error, links) ==
    [url |-> url, html |-> doc.html, markdown |-> doc.markdown,
     success |-> success, error |-> error, internal_links |-> links]

NoDoc == [html |-> EmptyHtml, markdown |-> EmptyMd]

\* the two failures of extract_page: an exception caught inside it (no text,
\* the message in error) and a crawl reported as unsuccessful (whatever was
\* fetched, no message)
FailedCrawls(url) ==
    {CrawlResult(url, NoDoc, FALSE, "msg", <<>>),
     CrawlResult(url, DocB, FALSE, "none", <<UrlA>>)}

RobotsFound(allowed) ==
    [report |-> [RobotsReport(TRUE, "bots allowed") EXCEPT
                    !.checked = MaxBots, !.allowed = allowed],
     raw |-> "body"]
RobotsMissing == [report |-> RobotsReport(FALSE, "not found"), raw |-> "none"]

\* score of each agent-readiness probe when its signal is found (tenths)
AgentFoundScore(p) ==
    CASE p = "agents_md" -> 50 [] p = "markdown_accept" -> 50
      [] p = "mcp_endpoint" -> 40 [] p = "x402" -> 20 [] OTHER -> 10

ProbeValues(m, p) ==
    CASE p = "robots" ->
            IF m = "url"
            THEN {RobotsMissing} \cup {RobotsFound(a) : a \in (MaxBots - 1)..MaxBots}
            ELSE {RobotsMissing, RobotsFound(MaxBots)}
      [] p = "llms_txt" ->
            IF m = "url"
            THEN {LlmsTxtReport(f, "probe") : f \in BOOLEAN}
            ELSE {LlmsTxtReport(TRUE, "probe")}
      [] p = "content_usage" -> {[header_found |-> FALSE]}
      [] p = "crawl" ->
            IF m = "url"
            THEN FailedCrawls(Seed)
                   \cup {CrawlResult(Seed, d, TRUE, "none", <<UrlA>>) : d \in {DocA, DocB}}
            ELSE FailedCrawls(Seed)
                   \cup {CrawlResult(Seed, DocA, TRUE, "none", <<UrlAB, UrlA, UrlAB>>)}
      [] p = "agents_md" ->
            IF m = "url"
            THEN {DefaultSubReport, [found |-> TRUE, score |-> AgentFoundScore(p)]}
            ELSE {[found |-> TRUE, score |-> AgentFoundScore(p)]}
      [] OTHER -> {[found |-> TRUE, score |-> AgentFoundScore(p)]}

-----------------------------------------------------------------------------
(* _build_agent_readiness: the report, and the errors list after its appends *)

SubReport(result) == IF IsException(result) THEN DefaultSubReport ELSE result.v

SubError(result, msg) == IF IsException(result) THEN <<msg>> ELSE <<>>

\* faulty variant: one handler around all five results, so one exception defaults all
build_agent_readiness_all_or_nothing(agents_md_result, md_accept_result, mcp_result, semantic_html_result, x402_result, nlweb_result, errs) ==
    LET all == <<agents_md_result, md_accept_result, mcp_result, x402_result,
                 nlweb_result>>
        failed == \E i \in 1..5 : IsException(all[i])
        Sub(result) == IF failed THEN DefaultSubReport ELSE result.v
    IN  [report |-> [agents_md |-> Sub(agents_md_result),
                     markdown_accept |-> Sub(md_accept_result),
                     mcp_endpoint |-> Sub(mcp_result),
                     semantic_html |-> semantic_html_result,
                     x402 |-> Sub(x402_result), nlweb |-> Sub(nlweb_result),
                     score |-> Sub(agents_md_result).score
                                 + Sub(md_accept_result).score + Sub(mcp_result).score
                                 + semantic_html_result.score
                                 + Sub(x402_result).score + Sub(nlweb_result).score],
         errors |-> errs \o SubError(agents_md_result, "AGENTS.md check failed")
                         \o SubError(md_accept_result, "Markdown accept check failed")
                         \o SubError(mcp_result, "MCP endpoint check failed")
                         \o SubError(x402_result, "x402 check failed")
                         \o SubError(nlweb_result, "NLWeb check failed")]

_build_agent_readiness(agents_md_result, md_accept_result, mcp_result, semantic_html_result, x402_result, nlweb_result, errs) ==
    LET agents_md == SubReport(agents_md_result)
        md_accept == SubReport(md_accept_result)
        mcp == SubReport(mcp_result)
        x402 == SubReport(x402_result)
        nlweb == SubReport(nlweb_result)
        total_score == agents_md.score + md_accept.score + mcp.score
                         + semantic_html_result.score + x402.score + nlweb.score
    IN  [report |-> [agents_md |-> agents_md, markdown_accept |-> md_accept,
                     mcp_endpoint |-> mcp, semantic_html |-> semantic_html_result,
                     x402 |-> x402, nlweb |-> nlweb, score |-> total_score],
         errors |-> errs \o SubError(agents_md_result, "AGENTS.md check failed")
                         \o SubError(md_accept_result, "Markdown accept check failed")
                         \o SubError(mcp_result, "MCP endpoint check failed")
                         \o SubError(x402_result, "x402 check failed")
                         \o SubError(nlweb_result, "NLWeb check failed")]

-----------------------------------------------------------------------------
(* Unpacking of the gather tuple, shared by audit_url and _audit_site_inner *)

UnpackRobots(robots_result) ==
    IF IsException(robots_result) THEN RobotsReport(FALSE, "Check failed")
    ELSE robots_result.v.report

UnpackRawRobots(robots_result) ==
    IF IsException(robots_result) THEN "none" ELSE robots_result.v.raw

UnpackLlmsTxt(llms_txt) ==
    IF IsException(llms_txt) THEN LlmsTxtReport(FALSE, "Check failed")
    ELSE llms_txt.v

UnpackContentUsage(cu_result) ==
    IF IsException(cu_result) THEN None ELSE cu_result.v

\* crawl / seed: None when the probe raised
UnpackCrawl(crawl_result) ==
    IF IsException(crawl_result) THEN None ELSE crawl_result.v

\* faulty variant: a result is used whether or not the crawl succeeded
CrawlSucceeded_any_result(crawl) == crawl # None

CrawlSucceeded(crawl) == crawl # None /\ crawl.success

\* faulty variant: a raising content-usage probe is dropped without an errors entry
UnpackErrors_silent_content_usage(r, crawlMsg) ==
    SubError(r["robots"], "Robots check failed")
      \o SubError(r["llms_txt"], "llms.txt check failed")
      \o SubError(r["crawl"], crawlMsg)

\* the entries the unpacking appends, in the order of the code
UnpackErrors(r, crawlMsg) ==
    SubError(r["robots"], "Robots check failed")
      \o SubError(r["llms_txt"], "llms.txt check failed")
      \o SubError(r["content_usage"], "Content-Usage check failed")
      \o SubError(r["crawl"], crawlMsg)

\* round((raw_tokens - clean_tokens) / raw_tokens * 100, 1), in tenths
\* (the float result and this one differ only on exact halves, which need
\* raw_tokens to be a multiple of 16; the documents here have none)
WastePct(raw_tokens, clean_tokens) ==
    IF raw_tokens > 0
    THEN IF raw_tokens >= clean_tokens
         THEN Round1(100 * (raw_tokens - clean_tokens), raw_tokens)
         ELSE 0 - Round1(100 * (clean_tokens - raw_tokens), raw_tokens)
    ELSE 0

-----------------------------------------------------------------------------
(* audit_url, from the completed gather tuple r to the AuditReport *)

audit_url(r) ==
    LET robots == UnpackRobots(r["robots"])
        llms_txt == UnpackLlmsTxt(r["llms_txt"])
        content_usage_result == UnpackContentUsage(r["content_usage"])
        crawl == UnpackCrawl(r["crawl"])
        errs1 == UnpackErrors(r, "Crawl failed")
        html == IF CrawlSucceeded(crawl) THEN crawl.html ELSE EmptyHtml
        markdown == IF CrawlSucceeded(crawl) THEN crawl.markdown ELSE EmptyMd
        errs2 == IF crawl # None /\ ~crawl.success /\ crawl.error # "none"
                 THEN errs1 \o <<"Crawl error">> ELSE errs1
        schema_org == check_schema_org(html)
        content == check_content(markdown)
        semantic_html_result == check_semantic_html(html)
        built == _build_agent_readiness(r["agents_md"], r["markdown_accept"],
                     r["mcp_endpoint"], semantic_html_result, r["x402"],
                     r["nlweb"], errs2)
        raw_tokens == html.chars \div 4
        clean_tokens == markdown.chars \div 4
        content2 == [content EXCEPT
                        !.raw_html_chars = html.chars,
                        !.clean_markdown_chars = markdown.chars,
                        !.estimated_raw_tokens = raw_tokens,
                        !.estimated_clean_tokens = clean_tokens,
                        !.context_waste_pct = WastePct(raw_tokens, clean_tokens)]
        scored == compute_scores(robots, llms_txt, schema_org, content2)
    IN  [kind |-> "AuditReport",
         url |-> Seed,
         overall_score |-> scored.overall,
         robots |-> scored.robots,
         llms_txt |-> scored.llms_txt,
         schema_org |-> scored.schema_org,
         content |-> scored.content,
         content_usage |-> content_usage_result,
         agent_readiness |-> built.report,
         errors |-> built.errors]

-----------------------------------------------------------------------------
(* The fan-out: asyncio.gather(..., return_exceptions=True) *)

AllResolved == \A p \in Probes : res[p] # Pending

RaisedProbes == {p \in Probes : res[p] = Raised}

\* audit_url / audit_site is called: the nine probes are dispatched
Start ==
    /\ mode \in {"url", "site"}
    /\ pc = "start"
    /\ pc' = "gather"
    /\ UNCHANGED <<mode, res, errors, report, outcome, expired, max_pages, site, batchVars, callVars>>

\* probe p returns v
ProbeReturn(p, v) ==
    /\ pc = "gather"
    /\ res[p] = Pending
    /\ res' = [res EXCEPT ![p] = Ok(v)]
    /\ UNCHANGED <<mode, pc, errors, report, outcome, expired, max_pages, site, batchVars, callVars>>

\* faulty variant: a failure is recorded in errors when the probe fails
ProbeRaise_records_error(p) ==
    /\ pc = "gather"
    /\ res[p] = Pending
    /\ mode = "site" => Cardinality(RaisedProbes) < MaxSiteFaults
    /\ res' = [res EXCEPT ![p] = Raised]
    /\ errors' = Append(errors, p)
    /\ UNCHANGED <<mode, pc, report, outcome, expired, max_pages, site, batchVars, callVars>>

\* probe p raises: gather stores the exception in p's slot
ProbeRaise(p) ==
    /\ pc = "gather"
    /\ res[p] = Pending
    /\ mode = "site" => Cardinality(RaisedProbes) < MaxSiteFaults
    /\ res' = [res EXCEPT ![p] = Raised]
    /\ UNCHANGED <<mode, pc, errors, report, outcome, expired, max_pages, site, batchVars, callVars>>

ProbeResolve(p) ==
    \/ \E v \in ProbeValues(mode, p) : ProbeReturn(p, v)
    \/ ProbeRaise(p)

\* the gather of audit_url completes: the rest of audit_url runs without an await
AuditUrlFinish ==
    /\ mode = "url"
    /\ pc = "gather"
    /\ AllResolved
    /\ report' = audit_url(res)
    /\ errors' = report'.errors
    /\ outcome' = "returned"
    /\ pc' = "done"
    /\ UNCHANGED <<mode, res, expired, max_pages, site, batchVars, callVars>>

-----------------------------------------------------------------------------
(* Site aggregation: auditor.py *)

Exception(type) == [kind |-> "exception", type |-> type]
IsRaise(x) == x.kind = "exception"

\* faulty variant: depth 1 weighs as depth 2
page_weight_from_depth_one(url) ==
    LET depth == Len(url.path)
    IN  IF depth <= 0 THEN 3 ELSE IF depth <= 2 THEN 2 ELSE 1

_page_weight(url) ==
    LET depth == Len(url.path)
    IN  IF depth <= 1 THEN 3 ELSE IF depth = 2 THEN 2 ELSE 1

PageAudit(url, schema_org, content, errs) ==
    [url |-> url, schema_org |-> schema_org, content |-> content, errors |-> errs]

\* faulty variant: every page that has an error is dropped
Successful_without_errors(p) == p.errors = <<>>

\* faulty variant: >= for >, which keeps every page
Successful_keeps_all(p) == p.errors = <<>> \/ p.content.word_count >= 0

Successful(p) == p.errors = <<>> \/ p.content.word_count > 0

RECURSIVE ConcatSchemas(_)
ConcatSchemas(s) ==
    IF s = <<>> THEN <<>> ELSE Head(s).schema_org.schemas \o ConcatSchemas(Tail(s))

\* faulty variant: the weighted sums are divided by the number of pages
WeightedAggregate_by_page_count(successful, robots, llms_txt) ==
    LET SchemaW(p) == (p.schema_org.score \div 10) * _page_weight(p.url)
        ContentW(p) == (p.content.score \div 10) * _page_weight(p.url)
        Blocks(p) == p.schema_org.blocks_found
        Words(p) == p.content.word_count
        Chars(p) == p.content.char_count
        Weight(p) == _page_weight(p.url)
        n == Len(successful)
        Sum(F(_)) == SumSeq([i \in 1..n |-> F(successful[i])])
        total_weight == Sum(Weight)
    IN  IF total_weight = 0 THEN Exception("ZeroDivisionError")
        ELSE
        LET avg_schema_score == Round1(Sum(SchemaW), n)
            avg_content_score == Round1(Sum(ContentW), n)
        IN  [kind |-> "aggregate",
             schema_org |->
                [blocks_found |-> Sum(Blocks),
                 schemas |-> ConcatSchemas(successful),
                 score |-> avg_schema_score,
                 detail |-> "JSON-LD block(s) across pages"],
             content |->
                [ContentReport("avg words across pages") EXCEPT
                    !.word_count = Sum(Words) \div n,
                    !.char_count = Sum(Chars) \div n,
                    !.has_headings = \E i \in 1..n : successful[i].content.has_headings,
                    !.has_lists = \E i \in 1..n : successful[i].content.has_lists,
                    !.has_code_blocks =
                        \E i \in 1..n : successful[i].content.has_code_blocks,
                    !.score = avg_content_score],
             overall |-> robots.score + llms_txt.score + avg_schema_score
                           + avg_content_score]

\* lines 91-146: the weighted averages over the successful pages.  The page
\* scores are whole points, so the weighted sums are exact.
WeightedAggregate(successful, robots, llms_txt) ==
    LET SchemaW(p) == (p.schema_org.score \div 10) * _page_weight(p.url)
        ContentW(p) == (p.content.score \div 10) * _page_weight(p.url)
        Blocks(p) == p.schema_org.blocks_found
        Words(p) == p.content.word_count
        Chars(p) == p.content.char_count
        Weight(p) == _page_weight(p.url)
        n == Len(successful)
        Sum(F(_)) == SumSeq([i \in 1..n |-> F(successful[i])])
        total_weight == Sum(Weight)
    IN  IF total_weight = 0 THEN Exception("ZeroDivisionError")
        ELSE
        LET avg_schema_score == Round1(Sum(SchemaW), total_weight)
            avg_content_score == Round1(Sum(ContentW), total_weight)
        IN  [kind |-> "aggregate",
             schema_org |->
                [blocks_found |-> Sum(Blocks),
                 schemas |-> ConcatSchemas(successful),
                 score |-> avg_schema_score,
                 detail |-> "JSON-LD block(s) across pages"],
             content |->
                [ContentReport("avg words across pages") EXCEPT
                    !.word_count = Sum(Words) \div n,
                    !.char_count = Sum(Chars) \div n,
                    !.has_headings = \E i \in 1..n : successful[i].content.has_headings,
                    !.has_lists = \E i \in 1..n : successful[i].content.has_lists,
                    !.has_code_blocks =
                        \E i \in 1..n : successful[i].content.has_code_blocks,
                    !.score = avg_content_score],
             overall |-> robots.score + llms_txt.score + avg_schema_score
                           + avg_content_score]

\* faulty variant: the early return for "no successful page" is missing
aggregate_page_scores_no_guard(pages, robots, llms_txt) ==
    WeightedAggregate(SelectSeq(pages, Successful), robots, llms_txt)

aggregate_page_scores(pages, robots, llms_txt) ==
    LET successful == SelectSeq(pages, Successful)
    IN  IF successful = <<>>
        THEN [kind |-> "aggregate",
              schema_org |-> SchemaReport("No pages audited successfully"),
              content |-> ContentReport("No pages audited successfully"),
              overall |-> robots.score + llms_txt.score]
        ELSE WeightedAggregate(successful, robots, llms_txt)

-----------------------------------------------------------------------------
(* Page discovery and batched extraction (collaborators of the site audit) *)

RECURSIVE Dedup(_, _)
Dedup(s, seen) ==
    IF s = <<>> THEN <<>>
    ELSE IF Head(s) \in seen THEN Dedup(Tail(s), seen)
    ELSE <<Head(s)>> \o Dedup(Tail(s), seen \cup {Head(s)})

Truncate(s, n) == SubSeq(s, 1, Min(n, Len(s)))

SameOrigin(seed, u) == u.host = seed.host

\* faulty variant: the list is cut to max before the seed is put in front
discover_pages_seed_after_cut(url, max, sitemap, seed_links) ==
    LET SameSite(u) == SameOrigin(url, u)
        fromSitemap == SelectSeq(sitemap, SameSite)
        fromLinks == SelectSeq(seed_links, SameSite)
        found == IF fromSitemap # <<>> THEN fromSitemap ELSE fromLinks
        all == Dedup(<<url>> \o found, {})
    IN  [method |-> IF fromSitemap # <<>> THEN "sitemap"
                    ELSE IF fromLinks # <<>> THEN "spider" ELSE "none",
         urls_sampled |-> <<url>> \o Truncate(Dedup(found, {url}), max),
         urls_found_total |-> Len(all),
         detail |-> "discovered"]

\* sitemap: the sitemap's URL list, <<>> when there is none; seed_links: the
\* links of the seed page, <<>> when the seed was not extracted
discover_pages(url, max, sitemap, seed_links) ==
    LET SameSite(u) == SameOrigin(url, u)
        fromSitemap == SelectSeq(sitemap, SameSite)
        fromLinks == SelectSeq(seed_links, SameSite)
        found == IF fromSitemap # <<>> THEN fromSitemap ELSE fromLinks
        all == Dedup(<<url>> \o found, {})
    IN  [method |-> IF fromSitemap # <<>> THEN "sitemap"
                    ELSE IF fromLinks # <<>> THEN "spider" ELSE "none",
         urls_sampled |-> Truncate(all, max),
         urls_found_total |-> Len(all),
         detail |-> "discovered"]

Sitemaps == {<<>>, <<UrlABC, Seed, UrlA>>}

\* what extract_pages may return for one URL
PageResults(u) ==
    FailedCrawls(u) \cup {CrawlResult(u, d, TRUE, "none", <<>>) : d \in {DocA, DocB}}

\* extract_pages(urls): one CrawlResult per URL, in the order of urls
ExtractResults(urls) ==
    {rs \in [1..Len(urls) -> UNION {PageResults(urls[i]) : i \in 1..Len(urls)}] :
        \A i \in 1..Len(urls) : rs[i] \in PageResults(urls[i])}

-----------------------------------------------------------------------------
(* _audit_site_inner *)

ScoredPage(url, html, markdown) ==
    LET checked == audit_page_content(html, markdown)
        scored == compute_scores(RobotsReport(FALSE, ""), LlmsTxtReport(FALSE, ""),
                                 checked.schema, checked.content)
    IN  PageAudit(url, scored.schema_org, scored.content, <<>>)

\* lines 456-468: the seed page, audited from the data already fetched
SeedPages(url, seed) ==
    IF CrawlSucceeded(seed) THEN <<ScoredPage(url, seed.html, seed.markdown)>>
    ELSE <<>>

SeedErrors(seed) ==
    IF seed # None /\ ~seed.success THEN <<"Seed crawl error">> ELSE <<>>

\* lines 482-504: one result of extract_pages
AuditCrawlResult(result) ==
    IF result.success THEN ScoredPage(result.url, result.html, result.markdown)
    ELSE PageAudit(result.url, SchemaReport("Crawl failed"),
                   ContentReport("Crawl failed"),
                   <<IF result.error # "none" THEN result.error
                     ELSE "Unknown crawl error">>)

AuditCrawlResults(crawl_results) ==
    [i \in 1..Len(crawl_results) |-> AuditCrawlResult(crawl_results[i])]

\* faulty variant: the seed is not taken out of the URLs still to extract
RemainingUrls_with_seed(url, discovery) == discovery.urls_sampled

RemainingUrls(url, discovery) ==
    LET NotSeed(u) == u # url IN SelectSeq(discovery.urls_sampled, NotSeed)

PagesFailed(pages) == Cardinality({i \in 1..Len(pages) : pages[i].errors # <<>>})

\* lines 506-538: phases 4 and 5 and the report; an exception when one is raised
SiteReport(url, r, discovery, agent_readiness, pages, errs) ==
    LET scored == compute_scores(UnpackRobots(r["robots"]), UnpackLlmsTxt(r["llms_txt"]),
                                 SchemaReport(""), ContentReport(""))
        agg == aggregate_page_scores(pages, scored.robots, scored.llms_txt)
    IN  IF IsRaise(agg) THEN agg
        ELSE [kind |-> "SiteAuditReport",
              url |-> url,
              domain |-> url.host,
              overall_score |-> agg.overall,
              robots |-> scored.robots,
              llms_txt |-> scored.llms_txt,
              schema_org |-> agg.schema_org,
              content |-> agg.content,
              content_usage |-> UnpackContentUsage(r["content_usage"]),
              agent_readiness |-> agent_readiness,
              discovery |-> discovery,
              pages |-> pages,
              pages_audited |-> Len(pages),
              pages_failed |-> PagesFailed(pages),
              errors |-> errs]

\* faulty variant: the timed-out report is built with a fresh errors list
TimedOutReport_fresh_errors(url, errs) ==
    [kind |-> "SiteAuditReport", url |-> url, domain |-> url.host,
     overall_score |-> 0,
     robots |-> RobotsReport(FALSE, "Timed out"),
     llms_txt |-> LlmsTxtReport(FALSE, "Timed out"),
     schema_org |-> SchemaReport("Timed out"),
     content |-> ContentReport("Timed out"),
     content_usage |-> None, agent_readiness |-> None,
     discovery |-> [method |-> "timeout", urls_sampled |-> <<>>,
                    urls_found_total |-> 0, detail |-> "Timed out"],
     pages |-> <<>>, pages_audited |-> 0, pages_failed |-> 0,
     errors |-> <<>>]

\* lines 345-360: the report of audit_site when the deadline expired
TimedOutReport(url, errs) ==
    [kind |-> "SiteAuditReport",
     url |-> url,
     domain |-> url.host,
     overall_score |-> 0,
     robots |-> RobotsReport(FALSE, "Timed out"),
     llms_txt |-> LlmsTxtReport(FALSE, "Timed out"),
     schema_org |-> SchemaReport("Timed out"),
     content |-> ContentReport("Timed out"),
     content_usage |-> None,
     agent_readiness |-> None,
     discovery |-> [method |-> "timeout", urls_sampled |-> <<>>,
                    urls_found_total |-> 0, detail |-> "Timed out"],
     pages |-> <<>>,
     pages_audited |-> 0,
     pages_failed |-> 0,
     errors |-> errs \o <<"Audit timed out">>]

\* the end of _audit_site_inner: it returns its report or raises
SiteFinish(discovery, agent_readiness, pages, errs) ==
    LET rep == SiteReport(Seed, res, discovery, agent_readiness, pages, errs)
    IN  /\ report' = IF IsRaise(rep) THEN NoReport ELSE rep
        /\ outcome' = IF IsRaise(rep) THEN "raised" ELSE "returned"
        /\ pc' = "done"

\* phase 1 is complete: the tuple is unpacked and discover_pages is awaited
SiteGatherDone ==
    /\ mode = "site"
    /\ pc = "gather"
    /\ AllResolved
    /\ errors' = errors \o UnpackErrors(res, "Seed crawl failed")
    /\ pc' = "discover"
    /\ UNCHANGED <<mode, res, report, outcome, expired, max_pages, site, batchVars, callVars>>

\* discover_pages returns; the seed page is audited; extract_pages is awaited
\* when pages remain, else _audit_site_inner runs to its end
DiscoverReturn(sitemap) ==
    /\ mode = "site"
    /\ pc = "discover"
    /\ LET seed == UnpackCrawl(res["crawl"])
           seed_links == IF CrawlSucceeded(seed) THEN seed.internal_links ELSE <<>>
           discovery == discover_pages(Seed, max_pages, sitemap, seed_links)
           seed_html == IF CrawlSucceeded(seed) THEN seed.html ELSE EmptyHtml
           built == _build_agent_readiness(res["agents_md"], res["markdown_accept"],
                        res["mcp_endpoint"], check_semantic_html(seed_html),
                        res["x402"], res["nlweb"], errors)
           pages == SeedPages(Seed, seed)
           errs == built.errors \o SeedErrors(seed)
           remaining_urls == RemainingUrls(Seed, discovery)
       IN  /\ errors' = errs
           /\ site' = [kind |-> "locals", discovery |-> discovery,
                       agent_readiness |-> built.report, pages |-> pages,
                       remaining_urls |-> remaining_urls, crawl_results |-> <<>>]
           /\ IF remaining_urls # <<>>
              THEN pc' = "extract" /\ UNCHANGED <<report, outcome>>
              ELSE SiteFinish(discovery, built.report, pages, errs)
    /\ UNCHANGED <<mode, res, expired, max_pages, batchVars, callVars>>

\* extract_pages returns: each result becomes a PageAudit, then phases 4 and 5
ExtractReturn ==
    /\ mode = "site"
    /\ pc = "extract"
    /\ \E crawl_results \in ExtractResults(site.remaining_urls) :
          /\ site' = [site EXCEPT !.crawl_results = crawl_results]
          /\ SiteFinish(site.discovery, site.agent_readiness,
                        site.pages \o AuditCrawlResults(crawl_results), errors)
    /\ UNCHANGED <<mode, res, errors, expired, max_pages, batchVars, callVars>>

\* faulty variant: wait_for wraps phase 1 only
Deadline_phase1_only ==
    /\ mode = "site"
    /\ pc = "gather"
    /\ report' = TimedOutReport(Seed, errors)
    /\ errors' = report'.errors
    /\ outcome' = "returned"
    /\ expired' = TRUE
    /\ pc' = "done"
    /\ UNCHANGED <<mode, res, max_pages, site, batchVars, callVars>>

\* asyncio.wait_for: the deadline fires while _audit_site_inner is suspended
Deadline ==
    /\ mode = "site"
    /\ pc \in {"gather", "discover", "extract"}
    /\ report' = TimedOutReport(Seed, errors)
    /\ errors' = report'.errors
    /\ outcome' = "returned"
    /\ expired' = TRUE
    /\ pc' = "done"
    /\ UNCHANGED <<mode, res, max_pages, site, batchVars, callVars>>

-----------------------------------------------------------------------------
(* The batch runner: run_batch_audit(urls, concurrency) *)

Urls == 1..NumUrls

BatchReport(u) == [kind |-> "report", url |-> u]

\* faulty variant: the audit starts without a permit
Acquire_without_permit(u) ==
    /\ mode = "batch"
    /\ task[u] = "waiting"
    /\ sem' = sem - 1
    /\ task' = [task EXCEPT ![u] = "running"]
    /\ UNCHANGED <<mode, auditVars, callVars, concurrency, fails, reports, batchErrors>>

\* a task enters the semaphore and starts its audit
Acquire(u) ==
    /\ mode = "batch"
    /\ task[u] = "waiting"
    /\ sem > 0
    /\ sem' = sem - 1
    /\ task' = [task EXCEPT ![u] = "running"]
    /\ UNCHANGED <<mode, auditVars, callVars, concurrency, fails, reports, batchErrors>>

\* faulty variant: results are matched to the input URLs by their completion order
AuditReturns_by_completion_order(u) ==
    /\ mode = "batch"
    /\ task[u] = "running"
    /\ u \notin fails
    /\ reports' = reports \cup
          {<<Cardinality(reports) + Cardinality(batchErrors) + 1, BatchReport(u)>>}
    /\ sem' = sem + 1
    /\ task' = [task EXCEPT ![u] = "done"]
    /\ UNCHANGED <<mode, auditVars, callVars, concurrency, fails, batchErrors>>

\* the audit of u returns: recorded in reports under u, the permit is released
AuditReturns(u) ==
    /\ mode = "batch"
    /\ task[u] = "running"
    /\ u \notin fails
    /\ reports' = reports \cup {<<u, BatchReport(u)>>}
    /\ sem' = sem + 1
    /\ task' = [task EXCEPT ![u] = "done"]
    /\ UNCHANGED <<mode, auditVars, callVars, concurrency, fails, batchErrors>>

\* the audit of u raises: recorded in errors under u, the permit is released
AuditRaises(u) ==
    /\ mode = "batch"
    /\ task[u] = "running"
    /\ u \in fails
    /\ batchErrors' = batchErrors \cup {<<u, "error">>}
    /\ sem' = sem + 1
    /\ task' = [task EXCEPT ![u] = "done"]
    /\ UNCHANGED <<mode, auditVars, callVars, concurrency, fails, reports>>

-----------------------------------------------------------------------------
(* The regression / baseline comparator and its caller in the lint command. *)
(* A snapshot is a function from the pillars it holds to their scores.      *)

\* faulty variant: a drop has to be larger than the threshold to count
compare_strictly_below(previous, current, threshold) ==
    LET both == DOMAIN previous \cap DOMAIN current
        pillars == [p \in both |->
                      [previous_score |-> previous[p], current_score |-> current[p],
                       delta |-> current[p] - previous[p],
                       regressed |-> current[p] - previous[p] < 0 - threshold]]
        has_regression == \E p \in both : pillars[p].regressed
    IN  [pillars |-> pillars, has_regression |-> has_regression,
         passed |-> ~has_regression]

compare(previous, current, threshold) ==
    LET both == DOMAIN previous \cap DOMAIN current
        pillars == [p \in both |->
                      [previous_score |-> previous[p], current_score |-> current[p],
                       delta |-> current[p] - previous[p],
                       regressed |-> current[p] - previous[p] <= 0 - threshold]]
        has_regression == \E p \in both : pillars[p].regressed
    IN  [pillars |-> pillars, has_regression |-> has_regression,
         passed |-> ~has_regression]

\* _handle_baseline_compare: exits 1 when the baseline file is missing or the
\* comparison did not pass, and returns otherwise
_handle_baseline_compare(current, baseline, threshold) ==
    IF baseline = None
    THEN [exit |-> 1, printed |-> "Baseline file not found", result |-> None]
    ELSE LET result == compare(baseline, current, threshold)
         IN  IF result.passed
             THEN [exit |-> 0, printed |-> "Baseline comparison passed",
                   result |-> result]
             ELSE [exit |-> 1, printed |-> "Baseline comparison failed",
                   result |-> result]

-----------------------------------------------------------------------------
(* Options of the lint command: cli/audit.py.  A flag of the command line is *)
(* None when it was not given and its value otherwise.                       *)

\* typer.Option(default, ...): the parameter the command function receives
OptionValue(flag, default) == IF flag = None THEN default ELSE flag.v

\* "Apply config defaults": the effective timeout, max_pages and threshold
EffectiveOptions(timeout, max_pages_option, regression_threshold, cfg) ==
    [timeout |-> IF timeout = timeout_default THEN cfg.timeout ELSE timeout,
     max_pages |-> IF max_pages_option = max_pages_default THEN cfg.max_pages
                   ELSE max_pages_option,
     regression_threshold |->
        IF regression_threshold = 10 * regression_threshold_default
        THEN cfg.regression_threshold ELSE regression_threshold]

\* the lint command, from its command line and config file to the effective values
audit_options(timeout_flag, max_pages_flag, threshold_flag, cfg) ==
    EffectiveOptions(OptionValue(timeout_flag, timeout_default),
                     OptionValue(max_pages_flag, max_pages_default),
                     OptionValue(threshold_flag, 10 * regression_threshold_default),
                     cfg)

-----------------------------------------------------------------------------
(* Direct calls of the pure functions, one call per behaviour: `call` holds *)
(* the function's name and arguments, `ret` what it returned.               *)

SeqsUpTo(S, n) == UNION {[1..k -> S] : k \in 0..n}

Returns(v) == [kind |-> "returned", v |-> v, n |-> 1, first |-> v]

PriorScores == {0, 70}

RobotsInputs(prior) ==
    {[RobotsReport(x[1], "input") EXCEPT
         !.checked = x[2], !.allowed = x[3], !.score = prior] :
       x \in {y \in BOOLEAN \X (0..MaxChecked) \X (0..MaxChecked) : y[3] <= y[2]}}

LlmsTxtInputs(prior) ==
    {[LlmsTxtReport(x[1], "input") EXCEPT !.llms_full_found = x[2], !.score = prior] :
       x \in {<<FALSE, FALSE>>, <<TRUE, FALSE>>, <<FALSE, TRUE>>}}

TypeLists == {<<"Article", "Organization", "Article", "FAQPage", "Product", "HowTo">>,
              <<"Organization", "WebSite", "Article">>}

SchemaInputs(prior) ==
    {[blocks_found |-> x[1], schemas |-> SubSeq(x[2], 1, x[1]), score |-> prior,
      detail |-> "input"] : x \in {y \in (0..6) \X TypeLists : y[1] <= Len(y[2])}}

WordCounts == {0, 150, 1500}

ContentInputs(prior) ==
    {[ContentReport("input") EXCEPT
         !.word_count = x[1], !.has_headings = x[2], !.has_lists = x[3],
         !.has_code_blocks = x[4], !.score = prior] :
       x \in WordCounts \X BOOLEAN \X BOOLEAN \X BOOLEAN}

\* an AgentReadinessReport of the given sub-scores, its own score not yet computed
AgentReadinessInput(agents_md, md_accept, mcp, semantic, x402, nlweb) ==
    [agents_md |-> [found |-> agents_md > 0, score |-> agents_md],
     markdown_accept |-> [found |-> md_accept > 0, score |-> md_accept],
     mcp_endpoint |-> [found |-> mcp > 0, score |-> mcp],
     semantic_html |-> [found |-> semantic > 0, score |-> semantic],
     x402 |-> [found |-> x402 > 0, score |-> x402],
     nlweb |-> [found |-> nlweb > 0, score |-> nlweb],
     score |-> 0]

\* sub-scores: absent, a float (2.5), the value of the found signal, and for
\* the agents manifest a score above its share (10), as the tests construct
AgentReadinessInputs ==
    {AgentReadinessInput(x[1], x[2], x[3], x[4], x[5], x[6]) :
       x \in {0, 25, 50, 100} \X {0, 50} \X {0, 40} \X {0, 30} \X {0, 20} \X {0, 10}}

ScoredAgentReadiness ==
    {None, compute_agent_readiness(AgentReadinessInput(50, 0, 40, 0, 0, 0)),
     compute_agent_readiness(AgentReadinessInput(50, 50, 40, 30, 20, 10))}

\* the reports carry the same score, left by an earlier scoring or the default 0
ComputeScoresCalls ==
    {[fn |-> "compute_scores",
      robots |-> [x[1] EXCEPT !.score = x[5]],
      llms_txt |-> [x[2] EXCEPT !.score = x[5]],
      schema_org |-> [x[3] EXCEPT !.score = x[5]],
      content |-> [x[4] EXCEPT !.score = x[5]]] :
       x \in RobotsInputs(0) \X LlmsTxtInputs(0) \X SchemaInputs(0)
              \X ContentInputs(0) \X PriorScores}

VersionedCalls ==
    {[fn |-> "compute_scores_versioned", robots |-> x[1], llms_txt |-> x[2],
      schema_org |-> x[3], content |-> x[4], scoring_version |-> x[5][1],
      agent_readiness |-> x[5][2]] :
       x \in RobotsInputs(0) \X LlmsTxtInputs(0) \X SchemaInputs(0) \X ContentInputs(0)
              \X {y \in {"v2", "v3"} \X ScoredAgentReadiness :
                     y[1] = "v3" \/ (y[2] # None /\ y[2].score < 200)}}

AgentReadinessCalls ==
    {[fn |-> "compute_agent_readiness", ar |-> a] : a \in AgentReadinessInputs}

\* results of the five agent probes and of check_semantic_html
SubResults(found) == {Raised, Ok(DefaultSubReport), Ok([found |-> TRUE, score |-> found])}

BuildAgentReadinessCalls ==
    {[fn |-> "_build_agent_readiness", agents_md_result |-> x[1],
      md_accept_result |-> x[2], mcp_result |-> x[3], semantic_html_result |-> x[4],
      x402_result |-> x[5], nlweb_result |-> x[6]] :
       x \in (SubResults(50) \cup {Ok([found |-> TRUE, score |-> 100])})
              \X SubResults(50) \X SubResults(40)
              \X {DefaultSubReport, [found |-> TRUE, score |-> 30]}
              \X SubResults(20) \X SubResults(10)}

\* the pages _audit_site_inner makes of crawl results, and a page that has an
\* error although words were extracted
PagePool ==
    LET urls == {Seed, UrlA, UrlAB, UrlABC}
    IN  {AuditCrawlResult(CrawlResult(u, d, TRUE, "none", <<>>)) :
            u \in urls, d \in {DocA, DocB}}
        \cup {AuditCrawlResult(CrawlResult(u, NoDoc, FALSE, "msg", <<>>)) : u \in urls}
        \cup {[AuditCrawlResult(CrawlResult(u, DocB, TRUE, "none", <<>>))
                 EXCEPT !.errors = <<"msg">>] : u \in urls}

AggregateCalls ==
    LET scored == compute_scores(RobotsFound(MaxBots).report,
                                 LlmsTxtReport(TRUE, "input"), SchemaReport(""),
                                 ContentReport(""))
    IN  {[fn |-> "aggregate_page_scores", pages |-> ps, robots |-> scored.robots,
          llms_txt |-> scored.llms_txt] : ps \in SeqsUpTo(PagePool, MaxPageList)}

\* the text of a URL after "https://example.com": slashes, a letter, a "?"
UrlTexts ==
    {t \in SeqsUpTo({"/", "a", "?"}, MaxUrlChars) : t = <<>> \/ t[1] # "a"}

\* urlparse(url).path: the text up to the query string
RECURSIVE PathOf(_)
PathOf(t) ==
    IF t = <<>> \/ Head(t) = "?" THEN <<>> ELSE <<Head(t)>> \o PathOf(Tail(t))

RECURSIVE StripLeft(_)
StripLeft(t) == IF t # <<>> /\ Head(t) = "/" THEN StripLeft(Tail(t)) ELSE t

RECURSIVE StripRight(_)
StripRight(t) ==
    IF t # <<>> /\ t[Len(t)] = "/" THEN StripRight(SubSeq(t, 1, Len(t) - 1)) ELSE t

\* faulty variant: lstrip for strip, so a trailing slash opens an empty piece
StripSlashes_leading_only(t) == StripLeft(t)

\* path.strip("/")
StripSlashes(t) == StripRight(StripLeft(t))

\* path.split("/"): the pieces between the slashes, empty pieces included
RECURSIVE SplitSlash(_)
SplitSlash(t) ==
    IF \A i \in 1..Len(t) : t[i] # "/" THEN <<t>>
    ELSE LET i == CHOOSE j \in 1..Len(t) :
                     t[j] = "/" /\ \A k \in 1..(j - 1) : t[k] # "/"
         IN  <<SubSeq(t, 1, i - 1)>> \o SplitSlash(SubSeq(t, i + 1, Len(t)))

\* lines 64-65: the URL as _page_weight reads it
ParseUrl(t) ==
    LET path == StripSlashes(PathOf(t))
    IN  [host |-> "example.com",
         path |-> IF path = <<>> THEN <<>> ELSE SplitSlash(path)]

PageWeightCalls == {[fn |-> "_page_weight", url |-> t] : t \in UrlTexts}

\* a gather tuple in which every probe returned and the page has the given lengths
GatherOf(html_chars, markdown_chars) ==
    [p \in Probes |->
       CASE p = "robots" -> Ok(RobotsMissing)
         [] p = "llms_txt" -> Ok(LlmsTxtReport(FALSE, "probe"))
         [] p = "content_usage" -> Ok([header_found |-> FALSE])
         [] p = "crawl" ->
               Ok(CrawlResult(Seed,
                     [html |-> [schemas |-> <<>>, chars |-> html_chars, semantic |-> 0],
                      markdown |-> [words |-> markdown_chars \div 6,
                                    chars |-> markdown_chars, headings |-> FALSE,
                                    lists |-> FALSE, code |-> FALSE]],
                     TRUE, "none", <<>>))
         [] OTHER -> Ok(DefaultSubReport)]

AuditUrlCalls ==
    {[fn |-> "audit_url", html_chars |-> x[1], markdown_chars |-> x[2]] :
       x \in (0..MaxChars) \X (0..MaxChars)}

\* word counts at, just below and just above the thresholds of CONTENT_WORD_TIERS
TierWordCounts ==
    {0, 1, 5000} \cup UNION {{CONTENT_WORD_TIERS[i][1] - 1, CONTENT_WORD_TIERS[i][1],
                              CONTENT_WORD_TIERS[i][1] + 1} :
                               i \in 1..Len(CONTENT_WORD_TIERS)}

\* compute_scores on every word count of TierWordCounts and every flag
ContentTierCalls ==
    {[fn |-> "compute_scores",
      robots |-> RobotsReport(FALSE, "input"),
      llms_txt |-> LlmsTxtReport(FALSE, "input"),
      schema_org |-> SchemaReport("input"),
      content |-> [ContentReport("input") EXCEPT
                      !.word_count = x[1], !.has_headings = x[2],
                      !.has_lists = x[3], !.has_code_blocks = x[4]]] :
       x \in TierWordCounts \X BOOLEAN \X BOOLEAN \X BOOLEAN}

SchemaTypes == HIGH_VALUE_TYPES \cup {"Organization", "WebSite", "Person"}

\* compute_scores on every list of up to MaxBlocks blocks of SchemaTypes
SchemaTypeCalls ==
    {[fn |-> "compute_scores",
      robots |-> RobotsReport(FALSE, "input"),
      llms_txt |-> LlmsTxtReport(FALSE, "input"),
      schema_org |-> [SchemaReport("input") EXCEPT
                         !.blocks_found = Len(t), !.schemas = t],
      content |-> ContentReport("input")] :
       t \in SeqsUpTo(SchemaTypes, MaxBlocks)}

\* context_waste_pct below, at and above the ceiling of the Token Efficiency check
WastePcts == {0, 300, 699, 700, 1000}

LintContents ==
    {[ContentReport("input") EXCEPT
         !.context_waste_pct = x[1], !.estimated_raw_tokens = x[2],
         !.estimated_clean_tokens = x[2] - ((x[2] * x[1]) \div 1000)] :
       x \in WastePcts \X {0, 1000}}

LintSchemas ==
    {SchemaReport("input"),
     [SchemaReport("input") EXCEPT !.blocks_found = 2,
                                   !.schemas = <<"Article", "Person">>]}

\* no report, a report without any signal (score 0), and a scored one
LintAgentReadiness ==
    {None, compute_agent_readiness(AgentReadinessInput(0, 0, 0, 0, 0, 0)),
     compute_agent_readiness(AgentReadinessInput(50, 0, 40, 0, 0, 0))}

LintCalls ==
    {[fn |-> "compute_lint_results", robots |-> x[1], llms_txt |-> x[2],
      schema_org |-> x[3], content |-> x[4], scoring_version |-> x[5],
      agent_readiness |-> x[6]] :
       x \in RobotsInputs(0) \X LlmsTxtInputs(0) \X LintSchemas \X LintContents
              \X {"v2", "v3"} \X LintAgentReadiness}

ComparedPillars == {"robots", "schema_org", "content"}

\* snapshots of some of the pillars, with scores of 0, 20 and 30 points
Snapshots == UNION {[D -> {0, 200, 300}] : D \in SUBSET ComparedPillars}

\* thresholds in tenths; the default of the command line is 5.0
Thresholds == {0, 50, 100, 150}

BaselineCompareCalls ==
    {[fn |-> "_handle_baseline_compare", report |-> x[1], baseline |-> x[2],
      threshold |-> x[3]] :
       x \in Snapshots \X (Snapshots \cup {None}) \X Thresholds}

Given(v) == [kind |-> "given", v |-> v]

Flags(values) == {None} \cup {Given(v) : v \in values}

\* command lines and config files with the default of each option, and other values
AuditOptionCalls ==
    {[fn |-> "audit_options", timeout_flag |-> x[1], max_pages_flag |-> x[2],
      threshold_flag |-> x[3],
      cfg |-> [timeout |-> x[4], max_pages |-> x[5], regression_threshold |-> x[6]]] :
       x \in Flags({timeout_default, 30, 60}) \X Flags({max_pages_default, 3, 20})
              \X Flags({10 * regression_threshold_default, 25, 100})
              \X {timeout_default, 30} \X {max_pages_default, 3}
              \X {10 * regression_threshold_default, 100}}

ForeignUrl == [host |-> "other.org", path |-> <<"a">>]

\* sitemaps and link lists: same-site and foreign URLs, the seed and repeats included
DiscoverCalls ==
    {[fn |-> "discover_pages", url |-> x[1], max_pages |-> x[2], sitemap |-> x[3],
      seed_links |-> x[4]] :
       x \in {Seed, UrlA} \X (1..MaxPagesBound)
              \X SeqsUpTo({Seed, UrlA, UrlAB, ForeignUrl}, 3)
              \X SeqsUpTo({Seed, UrlA, UrlABC, ForeignUrl}, 2)}

Calling(fn) == mode = "call" /\ call.fn = fn /\ ret = None

Return(v) ==
    /\ ret' = Returns(v)
    /\ UNCHANGED <<mode, auditVars, batchVars, call>>

CallComputeScores ==
    /\ Calling("compute_scores")
    /\ Return(compute_scores(call.robots, call.llms_txt, call.schema_org, call.content))

\* compute_scores is handed the reports it has returned
CallComputeScoresAgain ==
    /\ mode = "call" /\ call.fn = "compute_scores"
    /\ ret # None /\ ret.n = 1
    /\ ret' = [ret EXCEPT !.n = 2,
                          !.v = compute_scores(ret.v.robots, ret.v.llms_txt,
                                               ret.v.schema_org, ret.v.content)]
    /\ UNCHANGED <<mode, auditVars, batchVars, call>>

CallComputeScoresVersioned ==
    /\ Calling("compute_scores_versioned")
    /\ Return(compute_scores_versioned(call.robots, call.llms_txt, call.schema_org,
                 call.content, call.scoring_version, call.agent_readiness))

CallComputeAgentReadiness ==
    /\ Calling("compute_agent_readiness")
    /\ Return(compute_agent_readiness(call.ar))

CallBuildAgentReadiness ==
    /\ Calling("_build_agent_readiness")
    /\ Return(_build_agent_readiness(call.agents_md_result, call.md_accept_result,
                 call.mcp_result, call.semantic_html_result, call.x402_result,
                 call.nlweb_result, <<>>))

CallAggregatePageScores ==
    /\ Calling("aggregate_page_scores")
    /\ Return(aggregate_page_scores(call.pages, call.robots, call.llms_txt))

CallPageWeight ==
    /\ Calling("_page_weight")
    /\ Return(_page_weight(ParseUrl(call.url)))

CallAuditUrl ==
    /\ Calling("audit_url")
    /\ Return(audit_url(GatherOf(call.html_chars, call.markdown_chars)))

CallComputeLintResults ==
    /\ Calling("compute_lint_results")
    /\ Return(compute_lint_results_versioned(call.robots, call.llms_txt,
                 call.schema_org, call.content, call.scoring_version,
                 call.agent_readiness))

CallHandleBaselineCompare ==
    /\ Calling("_handle_baseline_compare")
    /\ Return(_handle_baseline_compare(call.report, call.baseline, call.threshold))

CallAuditOptions ==
    /\ Calling("audit_options")
    /\ Return(audit_options(call.timeout_flag, call.max_pages_flag,
                            call.threshold_flag, call.cfg))

CallDiscoverPages ==
    /\ Calling("discover_pages")
    /\ Return(discover_pages(call.url, call.max_pages, call.sitemap, call.seed_links))

-----------------------------------------------------------------------------
(* Specifications *)

InitAudit ==
    /\ pc = "start"
    /\ res = [p \in Probes |-> Pending]
    /\ errors = <<>>
    /\ report = NoReport
    /\ outcome = "none"
    /\ expired = FALSE
    /\ site = None

InitBatchIdle ==
    /\ concurrency = 1
    /\ sem = 1
    /\ task = [u \in Urls |-> "waiting"]
    /\ fails = {}
    /\ reports = {}
    /\ batchErrors = {}

InitCallIdle == call = None /\ ret = None

InitUrl ==
    mode = "url" /\ InitAudit /\ max_pages = 1 /\ InitBatchIdle /\ InitCallIdle

InitSite ==
    /\ mode = "site" /\ InitAudit /\ max_pages \in 1..MaxPagesBound
    /\ InitBatchIdle /\ InitCallIdle

InitBatch ==
    /\ mode = "batch"
    /\ InitAudit
    /\ max_pages = 1
    /\ concurrency \in 1..MaxConcurrency
    /\ sem = concurrency
    /\ task = [u \in Urls |-> "waiting"]
    /\ fails \in SUBSET Urls
    /\ reports = {}
    /\ batchErrors = {}
    /\ InitCallIdle

InitCall ==
    /\ mode = "call"
    /\ InitAudit
    /\ max_pages = 1
    /\ InitBatchIdle
    /\ \/ call \in ComputeScoresCalls
       \/ call \in VersionedCalls
       \/ call \in AgentReadinessCalls
       \/ call \in BuildAgentReadinessCalls
       \/ call \in AggregateCalls
       \/ call \in PageWeightCalls
       \/ call \in AuditUrlCalls
    /\ ret = None

\* direct calls on inputs at the boundaries of the scoring tables, and of the
\* lint derivation, the comparator, the discovery and the option handling
InitUnit ==
    /\ mode = "call"
    /\ InitAudit
    /\ max_pages = 1
    /\ InitBatchIdle
    /\ \/ call \in ContentTierCalls
       \/ call \in SchemaTypeCalls
       \/ call \in LintCalls
       \/ call \in BaselineCompareCalls
       \/ call \in DiscoverCalls
       \/ call \in AuditOptionCalls
    /\ ret = None

Init == InitUrl

NextUrl ==
    \/ Start
    \/ \E p \in Probes : ProbeResolve(p)
    \/ AuditUrlFinish

NextSite ==
    \/ Start
    \/ \E p \in Probes : ProbeResolve(p)
    \/ SiteGatherDone
    \/ \E sitemap \in Sitemaps : DiscoverReturn(sitemap)
    \/ ExtractReturn
    \/ Deadline

NextBatch ==
    \E u \in Urls : Acquire(u) \/ AuditReturns(u) \/ AuditRaises(u)

NextCall ==
    \/ CallComputeScores
    \/ CallComputeScoresAgain
    \/ CallComputeScoresVersioned
    \/ CallComputeAgentReadiness
    \/ CallBuildAgentReadiness
    \/ CallAggregatePageScores
    \/ CallPageWeight
    \/ CallAuditUrl

NextUnit ==
    \/ CallComputeScores
    \/ CallComputeLintResults
    \/ CallHandleBaselineCompare
    \/ CallDiscoverPages
    \/ CallAuditOptions

Next == NextUrl

Spec == Init /\ [][Next]_vars

SiteSpec == InitSite /\ [][NextSite]_vars

BatchSpec == InitBatch /\ [][NextBatch]_vars

CallSpec == InitCall /\ [][NextCall]_vars

UnitSpec == InitUnit /\ [][NextUnit]_vars

\* both audits, for what is claimed of audit_url and of audit_site alike
AuditSpec == (InitUrl \/ InitSite) /\ [][NextUrl \/ NextSite]_vars

\* audit_url, with what the shared client's timeout guarantees: a probe that was
\* handed the client returns or raises within the timeout; extract_page(url) is
\* handed neither the client nor the timeout
UrlFairSpec ==
    /\ Init /\ [][Next]_vars
    /\ WF_vars(Start)
    /\ WF_vars(AuditUrlFinish)
    /\ \A p \in ClientProbes : WF_vars(ProbeResolve(p))

\* audit_site, with what the event loop guarantees: code that is not suspended
\* runs on, and the timer of wait_for fires; no probe, discovery or extraction
\* is assumed to resolve
SiteFairSpec ==
    /\ InitSite /\ [][NextSite]_vars
    /\ WF_vars(Start)
    /\ WF_vars(SiteGatherDone)
    /\ WF_vars(Deadline)

-----------------------------------------------------------------------------
(* Claims *)

Returned == pc = "done" /\ outcome = "returned"
Completed == Returned /\ ~expired

\* the part of a report that is produced from probe p
PartOf(rep, p) ==
    CASE p = "robots" -> rep.robots
      [] p = "llms_txt" -> rep.llms_txt
      [] p = "content_usage" -> rep.content_usage
      [] p = "crawl" -> <<rep.schema_org, rep.content, rep.agent_readiness.semantic_html>>
      [] OTHER -> rep.agent_readiness[p]

\* what a probe's own return value v makes of its part of the report
OwnPart(p, v) ==
    CASE p = "robots" -> [v.report EXCEPT !.score = RobotsScore(v.report)]
      [] p = "llms_txt" -> [v EXCEPT !.score = LlmsTxtScore(v)]
      [] OTHER -> v

\* C1: failure isolation in the fan-out.  In audit_url, had any one raising
\* probe q returned (any value) instead, every other probe's part of the report
\* would be what it is now; in audit_site, the part of every site-wide probe
\* that returned is made of that probe's own value alone; and a raising
\* agents-manifest probe leaves agents_md not found with score 0.
C1_FailureIsolation ==
    /\ (mode = "url" /\ Returned) =>
          \A q \in RaisedProbes : \A v \in ProbeValues(mode, q) :
             LET alt == audit_url([res EXCEPT ![q] = Ok(v)])
             IN  \A p \in Probes \ {q} : PartOf(report, p) = PartOf(alt, p)
    /\ (mode = "site" /\ Completed) =>
          \A p \in Probes \ ({"crawl"} \cup RaisedProbes) :
             PartOf(report, p) = OwnPart(p, res[p].v)
    /\ (Completed /\ res["agents_md"] = Raised) =>
          /\ report.agent_readiness.agents_md.found = FALSE
          /\ report.agent_readiness.agents_md.score = 0

C1_Witness ==
    /\ mode = "url" /\ Returned
    /\ RaisedProbes = {"agents_md"}
    /\ report.agent_readiness.markdown_accept.found
    /\ report.agent_readiness.mcp_endpoint.score = 40

\* a probe's failure message in the errors list
FailureMessage(p) ==
    CASE p = "robots" -> "Robots check failed"
      [] p = "llms_txt" -> "llms.txt check failed"
      [] p = "content_usage" -> "Content-Usage check failed"
      [] p = "crawl" -> "Crawl failed"
      [] p = "agents_md" -> "AGENTS.md check failed"
      [] p = "markdown_accept" -> "Markdown accept check failed"
      [] p = "mcp_endpoint" -> "MCP endpoint check failed"
      [] p = "x402" -> "x402 check failed"
      [] OTHER -> "NLWeb check failed"

Count(seq, x) == Cardinality({i \in 1..Len(seq) : seq[i] = x})

\* C2: whatever subset of the nine probes raises, audit_url returns an
\* AuditReport; a raising robots / llms.txt probe is replaced by found = False
\* with detail "Check failed", a raising agent probe by a sub-report of score 0;
\* each raising probe has exactly one entry in errors and no other probe has
\* one, so k raising probes give k such entries.
C2_RaisingProbes ==
    (mode = "url" /\ pc = "done") =>
        /\ outcome = "returned"
        /\ report.kind = "AuditReport"
        /\ res["robots"] = Raised =>
              report.robots.found = FALSE /\ report.robots.detail = "Check failed"
        /\ res["llms_txt"] = Raised =>
              report.llms_txt.found = FALSE /\ report.llms_txt.detail = "Check failed"
        /\ \A p \in AgentProbes \cap RaisedProbes : report.agent_readiness[p].score = 0
        /\ \A p \in Probes :
              Count(report.errors, FailureMessage(p)) = IF res[p] = Raised THEN 1 ELSE 0
        /\ Cardinality({i \in 1..Len(report.errors) :
                           \E p \in Probes : report.errors[i] = FailureMessage(p)})
             = Cardinality(RaisedProbes)

C2_Witness ==
    mode = "url" /\ Returned /\ RaisedProbes = Probes /\ Len(report.errors) = 9

\* C3: audit_site always returns a SiteAuditReport and never raises; when
\* discovery finds nothing (no sitemap, no seed links) only the seed is sampled.
C3_SiteAlwaysReports ==
    /\ outcome # "raised"
    /\ pc = "done" => report.kind = "SiteAuditReport"
    /\ (Completed /\ report.discovery.method = "none") =>
          report.discovery.urls_sampled = <<Seed>>

\* discovery failed and the seed was not extracted: no page at all was audited
C3_Witness ==
    /\ mode = "site" /\ Completed
    /\ report.discovery.method = "none"
    /\ report.pages = <<>>

\* C4: when the deadline expires, audit_site returns (without raising) a report
\* with overall_score 0, the four pillars at score 0 with detail "Timed out",
\* discovery.method "timeout", no pages, and the timeout among its errors.
C4_DeadlineReport ==
    expired =>
        /\ outcome = "returned"
        /\ report.kind = "SiteAuditReport"
        /\ report.overall_score = 0
        /\ \A pillar \in {report.robots, report.llms_txt, report.schema_org,
                          report.content} :
              pillar.score = 0 /\ pillar.detail = "Timed out"
        /\ report.discovery.method = "timeout"
        /\ report.pages = <<>>
        /\ "Audit timed out" \in Range(report.errors)

\* the deadline fired after phase 1 had recorded a probe failure
C4_Witness ==
    /\ expired
    /\ site = None
    /\ Len(report.errors) > 1

\* C5: audit_site eventually returns on every execution, whichever probe,
\* discovery or extraction never resolves.
C5_SiteReturns == <>(mode = "site" /\ outcome = "returned")

\* the audit returned although a probe never resolved
C5_Witness ==
    /\ mode = "site" /\ Returned /\ expired
    /\ \E p \in Probes : res[p] = Pending

\* C6: audit_url eventually returns an AuditReport even when a probe never
\* responds, page content extraction included.
C6_UrlReturns == <>(mode = "url" /\ Returned)

\* the PageAudit made of the i-th result of extract_pages
PageOfResult(i) == report.pages[Len(site.pages) + i]

FailedResults == {i \in 1..Len(site.crawl_results) : ~site.crawl_results[i].success}

NoErrors(p) == p.errors = <<>>

SeedExtracted == CrawlSucceeded(UnpackCrawl(res["crawl"]))

Running == {u \in Urls : task[u] = "running"}

\* C8: at every moment at most `concurrency` audits are running.
C8_ConcurrencyBound == Cardinality(Running) <= concurrency /\ sem >= 0

\* the limit is reached while a URL waits and another has completed
C8_Witness ==
    /\ mode = "batch"
    /\ Cardinality(Running) = concurrency
    /\ concurrency > 1
    /\ \E u \in Urls : task[u] = "waiting"
    /\ \E u \in Urls : task[u] = "done"

BatchFinished == mode = "batch" /\ \A u \in Urls : task[u] = "done"

\* C9: when the batch has finished every URL is in exactly one of reports and
\* errors, under its own URL: a failing URL in errors, any other in reports with
\* its own report; with one failing URL there are NumUrls - 1 reports and 1 error.
C9_BatchPartition ==
    BatchFinished =>
        /\ \A u \in Urls :
              /\ u \in fails =>
                    /\ \E e \in batchErrors : e[1] = u
                    /\ ~\E r \in reports : r[1] = u
              /\ u \notin fails =>
                    /\ <<u, BatchReport(u)>> \in reports
                    /\ ~\E e \in batchErrors : e[1] = u
        /\ Cardinality(reports) + Cardinality(batchErrors) = NumUrls
        /\ Cardinality(batchErrors) = Cardinality(fails)

C9_Witness ==
    /\ BatchFinished
    /\ Cardinality(fails) = 1
    /\ Cardinality(reports) = NumUrls - 1
    /\ Cardinality(batchErrors) = 1

PillarSum(rep) ==
    rep.robots.score + rep.llms_txt.score + rep.schema_org.score + rep.content.score

\* C10: in every report overall_score is the sum of the four pillar scores it
\* carries, in audit_site the schema_org and content scores being the aggregates
\* over its pages; and in audit_url no outcome of an agent-readiness probe or of
\* the content-usage probe changes overall_score.
C10_OverallIsPillarSum ==
    /\ Returned => report.overall_score = PillarSum(report)
    /\ (mode = "site" /\ Completed) =>
          LET agg == aggregate_page_scores(report.pages, report.robots, report.llms_txt)
          IN  /\ report.schema_org = agg.schema_org
              /\ report.content = agg.content
    /\ (mode = "url" /\ Returned) =>
          \A q \in AgentProbes \cup {"content_usage"} :
             \A o \in {Raised} \cup {Ok(v) : v \in ProbeValues(mode, q)} :
                audit_url([res EXCEPT ![q] = o]).overall_score = report.overall_score

\* a site report whose structured-data score is a rounded weighted average
C10_Witness ==
    /\ mode = "site" /\ Completed
    /\ Len(report.pages) = 3
    /\ report.schema_org.score % 10 # 0
    /\ report.llms_txt.score > 0

Called(fn) == mode = "call" /\ call.fn = fn /\ ret # None

InBudget(score, max) == 0 <= score /\ score <= 10 * max

\* C11: the pillar maxima of each scheme sum to 100, and every score that
\* compute_scores (under v2 and under v3) and aggregate_page_scores return is
\* inside its budget: robots 0..25, llms_txt 0..10, schema_org 0..25,
\* content 0..40, overall 0..100.
C11_PointBudget ==
    /\ CONTENT_MAX + SCHEMA_MAX + ROBOTS_MAX + LLMS_TXT_MAX = 100
    /\ V3_CONTENT_MAX + V3_ROBOTS_MAX + V3_SCHEMA_MAX + V3_AGENT_READINESS_MAX
         + V3_LLMS_TXT_MAX = 100
    /\ (Called("compute_scores") \/ Called("compute_scores_versioned")) =>
          /\ InBudget(ret.v.robots.score, ROBOTS_MAX)
          /\ InBudget(ret.v.llms_txt.score, LLMS_TXT_MAX)
          /\ InBudget(ret.v.schema_org.score, SCHEMA_MAX)
          /\ InBudget(ret.v.content.score, CONTENT_MAX)
          /\ InBudget(ret.v.overall, 100)
    /\ Called("aggregate_page_scores") =>
          /\ ~IsRaise(ret.v)
          /\ InBudget(ret.v.schema_org.score, SCHEMA_MAX)
          /\ InBudget(ret.v.content.score, CONTENT_MAX)
          /\ InBudget(ret.v.overall, 100)

\* six structured-data types, which the cap brings back to 25, in a report of 100
C11_Witness ==
    /\ Called("compute_scores")
    /\ Cardinality(Range(call.schema_org.schemas)) = 5
    /\ ret.v.schema_org.score = 10 * SCHEMA_MAX
    /\ ret.v.overall = 1000

\* the pages the claim keeps: all but those with an error and no word
KeptByClaim(p) == ~(p.errors # <<>> /\ p.content.word_count = 0)

ClaimedWeight(url) ==
    LET depth == Len(url.path)
    IN  IF depth <= 1 THEN 3 ELSE IF depth = 2 THEN 2 ELSE 1

\* round(sum of weight * score / sum of weight, 1) over pages ps, in tenths
WeightedMean(ps, pillar) ==
    Round1(SumSeq([i \in 1..Len(ps) |->
                     (ps[i][pillar].score \div 10) * ClaimedWeight(ps[i].url)]),
           SumSeq([i \in 1..Len(ps) |-> ClaimedWeight(ps[i].url)]))

\* C12: aggregate_page_scores ignores exactly the pages that have an error and
\* a zero word count: its scores are the weighted means over all other pages,
\* pages with an error but with words included; when no page is kept both
\* aggregates have score 0 and detail "No pages audited successfully" and the
\* overall score is robots.score + llms_txt.score.
C12_ExclusionAndFallback ==
    Called("aggregate_page_scores") =>
        LET kept == SelectSeq(call.pages, KeptByClaim)
        IN  IF kept = <<>>
            THEN /\ ret.v.schema_org.score = 0
                 /\ ret.v.schema_org.detail = "No pages audited successfully"
                 /\ ret.v.content.score = 0
                 /\ ret.v.content.detail = "No pages audited successfully"
                 /\ ret.v.overall = call.robots.score + call.llms_txt.score
            ELSE /\ ret.v.schema_org.score = WeightedMean(kept, "schema_org")
                 /\ ret.v.content.score = WeightedMean(kept, "content")
                 /\ ret.v.content.detail # "No pages audited successfully"
                 /\ ret.v.overall = call.robots.score + call.llms_txt.score
                                      + ret.v.schema_org.score + ret.v.content.score

\* a failed page is dropped and a page with an error but with words is kept
C12_Witness ==
    /\ Called("aggregate_page_scores")
    /\ Len(call.pages) = 3
    /\ call.pages[1].errors # <<>> /\ call.pages[1].content.word_count = 0
    /\ call.pages[2].errors # <<>> /\ call.pages[2].content.word_count > 0
    /\ call.pages[3].errors = <<>>
    /\ ret.v.content.score > 0

\* C13: when exactly one page of the list is kept, the aggregate schema_org and
\* content scores are that page's own scores, whatever its depth and however
\* many failed pages are in the list.
C13_SinglePage ==
    Called("aggregate_page_scores") =>
        LET kept == SelectSeq(call.pages, KeptByClaim)
        IN  Len(kept) = 1 =>
               /\ ret.v.schema_org.score = kept[1].schema_org.score
               /\ ret.v.content.score = kept[1].content.score

\* one scored page of depth 3 (weight 1) between two failed pages
C13_Witness ==
    /\ Called("aggregate_page_scores")
    /\ Len(call.pages) = 3
    /\ ~KeptByClaim(call.pages[1])
    /\ KeptByClaim(call.pages[2]) /\ Len(call.pages[2].url.path) = 3
    /\ ~KeptByClaim(call.pages[3])
    /\ ret.v.schema_org.score = 160

\* C14: when all kept pages have the same depth weight, the aggregate
\* schema_org and content scores are the unweighted arithmetic means of the
\* pages' scores, rounded to one decimal.
C14_EqualWeights ==
    Called("aggregate_page_scores") =>
        LET kept == SelectSeq(call.pages, KeptByClaim)
            n == Len(kept)
        IN  (n > 0 /\ \A i \in 1..n : ClaimedWeight(kept[i].url) = ClaimedWeight(kept[1].url)) =>
               /\ ret.v.schema_org.score =
                     Round1(SumSeq([i \in 1..n |-> kept[i].schema_org.score \div 10]), n)
               /\ ret.v.content.score =
                     Round1(SumSeq([i \in 1..n |-> kept[i].content.score \div 10]), n)

\* three pages of weight 3, of depth 0 and 1, whose mean is no whole tenth
C14_Witness ==
    /\ Called("aggregate_page_scores")
    /\ Len(call.pages) = 3
    /\ \A i \in 1..3 : KeptByClaim(call.pages[i]) /\ ClaimedWeight(call.pages[i].url) = 3
    /\ \E i \in 1..3 : Len(call.pages[i].url.path) = 0
    /\ \E i \in 1..3 : Len(call.pages[i].url.path) = 1
    /\ ret.v.content.score = 207

\* C21: the base content score is that of the first tier from the top whose
\* threshold is <= word_count (1500 -> 25, 800 -> 20, 400 -> 15, 150 -> 8,
\* below 150 -> 0, thresholds inclusive); content.score is the base plus 7 for
\* headings, 5 for lists and 3 for code blocks, capped at 40, and does not
\* decrease when word_count grows with the flags fixed.
C21_ContentTiers ==
    Called("compute_scores") =>
        LET content == call.content
            w == content.word_count
            base == IF w >= 1500 THEN 25 ELSE IF w >= 800 THEN 20
                    ELSE IF w >= 400 THEN 15 ELSE IF w >= 150 THEN 8 ELSE 0
            bonus == (IF content.has_headings THEN 7 ELSE 0)
                       + (IF content.has_lists THEN 5 ELSE 0)
                       + (IF content.has_code_blocks THEN 3 ELSE 0)
        IN  /\ ret.v.content.score = 10 * Min(40, base + bonus)
            /\ \A more \in TierWordCounts :
                  more >= w =>
                     ContentScore([content EXCEPT !.word_count = more])
                        >= ret.v.content.score

\* at the threshold 800 with lists 25 points, and one word below it 20
C21_Witness ==
    /\ Called("compute_scores")
    /\ call.content.word_count = 800
    /\ call.content.has_lists /\ ~call.content.has_headings
    /\ ~call.content.has_code_blocks
    /\ ret.v.content.score = 250
    /\ ContentScore([call.content EXCEPT !.word_count = 799]) = 200

\* C22: the structured-data score is 0 when no block was found and otherwise
\* min(25, 8 + 5 * distinct high-value types + 3 * other distinct types): it
\* depends on the set of distinct type names only, so a further block of a
\* type already present leaves it unchanged.
C22_SchemaTypeSet ==
    Called("compute_scores") =>
        LET schema_org == call.schema_org
            types == Range(schema_org.schemas)
            high == types \cap {"FAQPage", "HowTo", "Article", "Product", "Recipe"}
            score == ret.v.schema_org.score
        IN  /\ schema_org.blocks_found = 0 => score = 0
            /\ schema_org.blocks_found > 0 =>
                  score = 10 * Min(25, 8 + 5 * Cardinality(high)
                                         + 3 * Cardinality(types \ high))
            /\ \A t \in types :
                  SchemaScore([schema_org EXCEPT
                                 !.schemas = Append(schema_org.schemas, t),
                                 !.blocks_found = schema_org.blocks_found + 1])
                     = score

\* two Article blocks and two Person blocks: 8 + 5 + 3, not 8 + 10 + 6
C22_Witness ==
    /\ Called("compute_scores")
    /\ call.schema_org.schemas = <<"Article", "Person", "Article", "Person">>
    /\ ret.v.schema_org.score = 160

\* the four check names of every scheme, in their order
LintNames == <<"AI Primitives", "Bot Access", "Data Structuring", "Token Efficiency">>

\* C23: compute_lint_results returns the checks AI Primitives, Bot Access, Data
\* Structuring, Token Efficiency in this order, with an Agent Readiness check
\* appended only under v3 and only when an AgentReadinessReport was supplied
\* (5 checks then, 4 otherwise), and result.passed is true exactly when every
\* check passed.
C23_LintDerivation ==
    Called("compute_lint_results") =>
        LET checks == ret.v.checks
            names == [i \in 1..Len(checks) |-> checks[i].name]
            withAgent == call.scoring_version = "v3" /\ call.agent_readiness # None
        IN  /\ withAgent => names = Append(LintNames, "Agent Readiness")
            /\ ~withAgent => names = LintNames
            /\ Len(checks) = (IF withAgent THEN 5 ELSE 4)
            /\ ret.v.passed <=> (\A i \in 1..Len(checks) : checks[i].passed)

\* under v3 the four checks pass and the Agent Readiness check fails
C23_Witness ==
    /\ Called("compute_lint_results")
    /\ call.scoring_version = "v3"
    /\ call.agent_readiness # None /\ call.agent_readiness.score = 0
    /\ Len(ret.v.checks) = 5
    /\ \A i \in 1..4 : ret.v.checks[i].passed
    /\ ~ret.v.passed

\* C24: for each pillar present in both snapshots delta is current - previous
\* and the pillar regresses exactly when delta <= -threshold, a drop equal to
\* the threshold included; has_regression is true iff some pillar regresses
\* and passed is its negation (previous 30, current 20: delta -10, a regression
\* with threshold 5, none with threshold 15); a pillar missing from one of the
\* snapshots is not compared.
C24_RegressionCompare ==
    /\ LET thirty == [p \in {"content"} |-> 300]
           twenty == [p \in {"content"} |-> 200]
       IN  /\ compare(thirty, twenty, 50).pillars["content"].delta = 0 - 100
           /\ compare(thirty, twenty, 50).has_regression
           /\ ~compare(thirty, twenty, 150).has_regression
    /\ (Called("_handle_baseline_compare") /\ call.baseline # None) =>
          LET result == ret.v.result
              both == DOMAIN call.baseline \cap DOMAIN call.report
              drops == {p \in both :
                          call.report[p] - call.baseline[p] <= 0 - call.threshold}
          IN  /\ DOMAIN result.pillars = both
              /\ \A p \in both :
                    /\ result.pillars[p].delta = call.report[p] - call.baseline[p]
                    /\ result.pillars[p].regressed <=> p \in drops
              /\ result.has_regression <=> drops # {}
              /\ result.passed <=> ~result.has_regression
              /\ ret.v.exit = (IF result.has_regression THEN 1 ELSE 0)

\* content drops from 30 to 20 with a threshold of 10, robots is not in the baseline
C24_Witness ==
    /\ Called("_handle_baseline_compare")
    /\ call.baseline = [p \in {"content"} |-> 300]
    /\ call.report = [p \in {"content", "robots"} |-> IF p = "content" THEN 200 ELSE 0]
    /\ call.threshold = 100
    /\ ret.v.result.has_regression
    /\ ret.v.exit = 1

PathLength(t) ==
    IF \E i \in 1..Len(t) : t[i] = "?"
    THEN (CHOOSE i \in 1..Len(t) : t[i] = "?" /\ \A k \in 1..(i - 1) : t[k] # "?") - 1
    ELSE Len(t)

\* the number of path segments: the pieces between the slashes of the path,
\* its leading and trailing slashes set aside (an empty piece between two
\* inner slashes is a piece)
SegmentCount(t) ==
    LET inner == {i \in 1..PathLength(t) : t[i] # "/"}
    IN  IF inner = {} THEN 0
        ELSE LET a == CHOOSE i \in inner : \A j \in inner : i <= j
                 b == CHOOSE i \in inner : \A j \in inner : j <= i
             IN  1 + Cardinality({i \in a..b : t[i] = "/"})

\* C15: the weight of a page is a function of the number of path segments of
\* its URL only, the query string and leading and trailing slashes not
\* counting: 3 for 0 or 1 segment, 2 for 2, 1 for 3 or more; it is in {1, 2, 3}
\* and does not grow when a segment is added.
C15_PageWeight ==
    Called("_page_weight") =>
        LET depth == SegmentCount(call.url)
        IN  /\ ret.v \in {1, 2, 3}
            /\ ret.v = (IF depth <= 1 THEN 3 ELSE IF depth = 2 THEN 2 ELSE 1)
            /\ PathLength(call.url) = Len(call.url) =>
                  /\ _page_weight(ParseUrl(call.url \o <<"/", "a">>)) <= ret.v
                  /\ _page_weight(ParseUrl(call.url \o <<"/">>)) = ret.v
                  /\ _page_weight(ParseUrl(call.url \o <<"?", "a", "/", "a">>)) = ret.v

\* two segments behind doubled leading slashes, with a trailing slash and a query
C15_Witness ==
    /\ Called("_page_weight")
    /\ call.url = <<"/", "/", "a", "/", "a", "/", "?", "a">>
    /\ ret.v = 2

\* C16: in audit_url, with raw_tokens = len(html) div 4 and clean_tokens =
\* len(markdown) div 4, context_waste_pct is (raw_tokens - clean_tokens) /
\* raw_tokens * 100 (to the one decimal stored) when raw_tokens > 0 and 0
\* otherwise, clamped to 0..100 for every pair of lengths.
C16_WasteClamped ==
    Called("audit_url") =>
        LET raw_tokens == call.html_chars \div 4
            clean_tokens == call.markdown_chars \div 4
            content == ret.v.content
        IN  /\ content.estimated_raw_tokens = raw_tokens
            /\ content.estimated_clean_tokens = clean_tokens
            /\ content.context_waste_pct =
                  (IF raw_tokens > 0 /\ raw_tokens >= clean_tokens
                   THEN Round1(100 * (raw_tokens - clean_tokens), raw_tokens)
                   ELSE 0)
            /\ 0 <= content.context_waste_pct /\ content.context_waste_pct <= 1000

\* C17: in every AgentReadinessReport, the one compute_agent_readiness returns
\* and the one _build_agent_readiness assembles from the probe results, score
\* is min(20, sum of the six sub-scores) and so is never above 20.
C17_AgentScoreCapped ==
    /\ Called("compute_agent_readiness") =>
          ret.v.score = Min(10 * V3_AGENT_READINESS_MAX, SubScoreSum(ret.v))
    /\ Called("_build_agent_readiness") =>
          /\ ret.v.report.score =
                Min(10 * V3_AGENT_READINESS_MAX, SubScoreSum(ret.v.report))
          /\ ret.v.report.score <= 10 * V3_AGENT_READINESS_MAX

\* C18: under v3 the overall score is the sum of the four v2 raw scores, each
\* rescaled as round(raw / v2_max * v3_max, 1), plus the agent-readiness score
\* (0 without a report), while the four returned reports keep their v2 scores;
\* under v2 the agent-readiness report is ignored.
C18_V3Overall ==
    Called("compute_scores_versioned") =>
        LET v2 == compute_scores(call.robots, call.llms_txt, call.schema_org,
                                 call.content)
            ar == IF call.agent_readiness = None THEN 0
                  ELSE call.agent_readiness.score
        IN  /\ ret.v.robots = v2.robots
            /\ ret.v.llms_txt = v2.llms_txt
            /\ ret.v.schema_org = v2.schema_org
            /\ ret.v.content = v2.content
            /\ call.scoring_version = "v2" => ret.v.overall = v2.overall
            /\ call.scoring_version = "v3" =>
                  ret.v.overall =
                     Scale(ret.v.robots.score, ROBOTS_MAX, V3_ROBOTS_MAX)
                       + Scale(ret.v.llms_txt.score, LLMS_TXT_MAX, V3_LLMS_TXT_MAX)
                       + Scale(ret.v.schema_org.score, SCHEMA_MAX, V3_SCHEMA_MAX)
                       + Scale(ret.v.content.score, CONTENT_MAX, V3_CONTENT_MAX)
                       + ar

\* a v3 score with every part in it: robots 8.3 -> 6.6, llms 10 -> 5,
\* schema 16 -> 12.8, content 30 -> 26.2 (an exact half, to even), agents 9
C18_Witness ==
    /\ Called("compute_scores_versioned")
    /\ call.scoring_version = "v3"
    /\ ret.v.robots.score = 83
    /\ ret.v.schema_org.score = 160
    /\ ret.v.content.score = 300
    /\ ret.v.overall = 66 + 50 + 128 + 262 + 90

\* C19: what compute_scores returns depends on the raw fields only, not on the
\* scores the reports carried before the call, and handing it the reports it
\* has returned changes nothing.
C19_PureScoring ==
    Called("compute_scores") =>
        LET fresh == compute_scores([call.robots EXCEPT !.score = 0],
                                    [call.llms_txt EXCEPT !.score = 0],
                                    [call.schema_org EXCEPT !.score = 0],
                                    [call.content EXCEPT !.score = 0])
        IN  /\ ret.first = fresh
            /\ ret.v = ret.first

\* reports that carried a score of 7 were scored, and scored again
C19_Witness ==
    /\ Called("compute_scores")
    /\ ret.n = 2
    /\ call.content.score = 70
    /\ ret.v.content.score = 150
    /\ ret.v.overall > ret.v.content.score

\* C20: the robots score is 0 when robots.txt is absent or no bot was
\* evaluated, 25 when every evaluated bot is allowed, in general the tenth
\* nearest to 25 * allowed / checked, and with the number of evaluated bots
\* fixed it does not decrease when more bots are allowed.
C20_RobotsScore ==
    Called("compute_scores") =>
        LET robots == call.robots
            score == ret.first.robots.score
        IN  /\ (~robots.found \/ robots.checked = 0) => score = 0
            /\ (robots.found /\ robots.checked > 0) =>
                  /\ robots.allowed = robots.checked => score = 10 * ROBOTS_MAX
                  /\ 2 * (score * robots.checked - 10 * ROBOTS_MAX * robots.allowed)
                        <= robots.checked
                  /\ 2 * (10 * ROBOTS_MAX * robots.allowed - score * robots.checked)
                        <= robots.checked
                  /\ \A more \in robots.allowed..robots.checked :
                        RobotsScore([robots EXCEPT !.allowed = more]) >= score

\* one bot of three allowed: 8.3
C20_Witness ==
    /\ Called("compute_scores")
    /\ call.robots.found /\ call.robots.checked = 3 /\ call.robots.allowed = 1
    /\ ret.first.robots.score = 83

\* the entries of errors in the order in which audit_url appends them
ErrorOrder ==
    <<"Robots check failed", "llms.txt check failed", "Content-Usage check failed",
      "Crawl failed", "Crawl error", "AGENTS.md check failed",
      "Markdown accept check failed", "MCP endpoint check failed",
      "x402 check failed", "NLWeb check failed">>

\* C26: in whatever order the probes of one fan-out return or raise, audit_url
\* returns the same AuditReport: nothing is recorded while the probes resolve,
\* each result sits in its probe's slot of the result tuple, the report is
\* made of the tuple alone, and the entries of errors stand in one fixed order.
C26_CompletionOrder ==
    /\ (mode = "url" /\ pc \in {"start", "gather"}) =>
          /\ errors = <<>> /\ report = NoReport
          /\ \A p \in Probes :
                res[p] \in {Pending, Raised} \cup {Ok(v) : v \in ProbeValues(mode, p)}
    /\ (mode = "url" /\ Returned) =>
          LET Present(m) == m \in Range(report.errors)
          IN  /\ report = audit_url(res)
              /\ \A p \in Probes \ ({"crawl"} \cup RaisedProbes) :
                    PartOf(report, p) = OwnPart(p, res[p].v)
              /\ report.errors = SelectSeq(ErrorOrder, Present)
              /\ \A p \in Probes : Present(FailureMessage(p)) <=> res[p] = Raised

\* the first and the last probe of the tuple raised, the others returned
C26_Witness ==
    /\ mode = "url" /\ Returned
    /\ RaisedProbes = {"robots", "nlweb"}
    /\ report.errors = <<"Robots check failed", "NLWeb check failed">>
    /\ report.llms_txt.found

\* the seed page's extraction did not succeed
SeedFailed ==
    /\ AllResolved
    /\ res["crawl"] = Raised \/ ~res["crawl"].v.success

FailedSampled ==
    {u \in Range(report.discovery.urls_sampled) :
        \/ u = Seed /\ ~SeedExtracted
        \/ \E i \in 1..Len(site.crawl_results) :
              site.crawl_results[i].url = u /\ ~site.crawl_results[i].success}

C29_CrawlFailureRecorded ==
    (mode = "url" /\ Returned /\ SeedFailed) =>
        /\ report.errors # <<>>
        /\ \E i \in 1..Len(report.errors) :
              report.errors[i] \in {"Crawl failed", "Crawl error"}

\* C30: in the lint command the effective --timeout, --max-pages and
\* --regression-threshold are the command-line value whenever the flag was
\* given, whatever its value (one equal to the default 15 / 10 / 5.0 included),
\* and the config-file value only when the flag was not given.
C30_OptionPrecedence ==
    Called("audit_options") =>
        LET Effective(flag, configured) == IF flag # None THEN flag.v ELSE configured
        IN  /\ ret.v.timeout = Effective(call.timeout_flag, call.cfg.timeout)
            /\ ret.v.max_pages = Effective(call.max_pages_flag, call.cfg.max_pages)
            /\ ret.v.regression_threshold =
                  Effective(call.threshold_flag, call.cfg.regression_threshold)

=============================================================================
